---- MODULE Spec2Model ----
(***************************************************************************)
(* A model of the planit session engine: the three repositories with       *)
(* two-phase staging, the transaction that coordinates them, the entity    *)
(* commands, the save/load codec and the 7-day scheduler.                  *)
(*                                                                         *)
(* Representation.  Times of day are seconds after midnight and durations  *)
(* are seconds: the source keeps hours as f32 and converts with            *)
(* num_seconds() / 3600.0, so an hour count h is h * SecondsPerHour here.  *)
(* Dates are day numbers; the weekday of date d is d % DaysPerWeek.        *)
(* An absent Option<i32> card id is NoCard, an absent Option<NaiveDate>    *)
(* is NoDate.                                                              *)
(***************************************************************************)
EXTENDS Integers, Sequences, FiniteSets, TLC

VARIABLES cards, events, tasks, config, today, last, tx, sm

vars == <<cards, events, tasks, config, today, last, tx, sm>>

SecondsPerHour == 3600
DaysPerWeek == 7
NoCard == 0
NoDate == -1

(***************************************************************************)
(* Small helpers over sequences and sets.                                  *)
(***************************************************************************)
Max2(a, b) == IF a >= b THEN a ELSE b
Min2(a, b) == IF a <= b THEN a ELSE b

SetMax(S) == CHOOSE m \in S : \A x \in S : x <= m

Range(s) == {s[i] : i \in 1..Len(s)}

RECURSIVE AscendingSeq(_)
\* the elements of a finite set of integers in ascending order
AscendingSeq(S) ==
    IF S = {} THEN <<>>
    ELSE LET m == CHOOSE x \in S : \A y \in S : x <= y
         IN <<m>> \o AscendingSeq(S \ {m})

(***************************************************************************)
(* Repository<T>  (core/repository.rs)                                     *)
(***************************************************************************)
NoStage == [active |-> FALSE, pending |-> <<>>, next_id_start |-> 0, cleared |-> FALSE]

Repository_new == [items |-> <<>>, next_id |-> 1, staged |-> NoStage]

\* Repository::len
len(repo) == Cardinality(DOMAIN repo.items)

\* an insert that writes the live map whether or not the repository is staged
insert_through(repo, entity) ==
    LET id == repo.next_id
        e  == [entity EXCEPT !.id = id]
    IN IF repo.staged.active
       THEN [repo EXCEPT !.next_id = id + 1,
                         !.staged.pending = Append(@, e),
                         !.items = (id :> e) @@ @]
       ELSE [repo EXCEPT !.next_id = id + 1,
                         !.items = (id :> e) @@ @]

\* Repository::insert: the id is next_id; a staged repository appends to the
\* pending buffer, an unstaged one writes the live map (HashMap::insert
\* replaces an entry that is already stored under the id).
insert(repo, entity) ==
    LET id == repo.next_id
        e  == [entity EXCEPT !.id = id]
    IN IF repo.staged.active
       THEN [repo EXCEPT !.next_id = id + 1,
                         !.staged.pending = Append(@, e)]
       ELSE [repo EXCEPT !.next_id = id + 1,
                         !.items = (id :> e) @@ @]

\* a delete that hands the id back when the entity deleted was the last added
delete_rewinding(repo, id) ==
    IF id \in DOMAIN repo.items
    THEN [ok |-> TRUE,
          repo |-> [repo EXCEPT !.items = [k \in (DOMAIN repo.items) \ {id} |-> repo.items[k]],
                                !.next_id = IF id + 1 = @ THEN id ELSE @]]
    ELSE [ok |-> FALSE, repo |-> repo]

\* Repository::delete
delete(repo, id) ==
    IF id \in DOMAIN repo.items
    THEN [ok |-> TRUE,
          repo |-> [repo EXCEPT !.items = [k \in (DOMAIN repo.items) \ {id} |-> repo.items[k]]]]
    ELSE [ok |-> FALSE, repo |-> repo]

PendingIds(repo) == {repo.staged.pending[i].id : i \in 1..Len(repo.staged.pending)}

\* an exists_including_staged that counts the live map whatever the stage
exists_counting_live(repo, id) ==
    id \in DOMAIN repo.items \/ (repo.staged.active /\ id \in PendingIds(repo))

\* Repository::exists_including_staged
exists_including_staged(repo, id) ==
    IF repo.staged.active
    THEN IF repo.staged.cleared
         THEN id \in PendingIds(repo)
         ELSE id \in DOMAIN repo.items \/ id \in PendingIds(repo)
    ELSE id \in DOMAIN repo.items

\* Repository::begin_stage
begin_stage(repo, clear_existing) ==
    IF repo.staged.active
    THEN [ok |-> FALSE, repo |-> repo]
    ELSE LET nid == IF clear_existing THEN 1 ELSE repo.next_id
         IN [ok |-> TRUE,
             repo |-> [repo EXCEPT !.next_id = nid,
                                   !.staged = [active |-> TRUE, pending |-> <<>>,
                                               next_id_start |-> nid,
                                               cleared |-> clear_existing]]]

\* Repository::discard_stage
discard_stage(repo) ==
    IF repo.staged.active
    THEN [repo EXCEPT !.next_id = repo.staged.next_id_start, !.staged = NoStage]
    ELSE repo

\* Repository::staged_effective_ids
staged_effective_ids(repo) ==
    IF ~repo.staged.active
    THEN [ok |-> FALSE, ids |-> {}]
    ELSE [ok |-> TRUE,
          ids |-> (IF repo.staged.cleared THEN {} ELSE DOMAIN repo.items)
                     \cup PendingIds(repo)]

RECURSIVE ApplyPending(_, _, _)
\* the loop of prepare_commit over staged.pending, from index i
ApplyPending(items, pending, i) ==
    IF i > Len(pending) THEN [ok |-> TRUE, items |-> items]
    ELSE IF pending[i].id \in DOMAIN items
         THEN [ok |-> FALSE, items |-> items]
         ELSE ApplyPending((pending[i].id :> pending[i]) @@ items, pending, i + 1)

\* a prepare_commit that starts from the live map even when the stage was
\* opened with clear_existing
prepare_commit_keep_live(repo) ==
    IF ~repo.staged.active
    THEN [ok |-> FALSE, items |-> <<>>, next_id |-> 0]
    ELSE LET r == ApplyPending(repo.items, repo.staged.pending, 1)
         IN IF ~r.ok
            THEN [ok |-> FALSE, items |-> <<>>, next_id |-> 0]
            ELSE [ok |-> TRUE,
                  items |-> r.items,
                  next_id |-> Max2(SetMax(DOMAIN r.items \cup {0}) + 1, repo.next_id)]

\* Repository::prepare_commit: computes the snapshot, does not touch self
prepare_commit(repo) ==
    IF ~repo.staged.active
    THEN [ok |-> FALSE, items |-> <<>>, next_id |-> 0]
    ELSE LET base == IF repo.staged.cleared THEN <<>> ELSE repo.items
             r    == ApplyPending(base, repo.staged.pending, 1)
         IN IF ~r.ok
            THEN [ok |-> FALSE, items |-> <<>>, next_id |-> 0]
            ELSE [ok |-> TRUE,
                  items |-> r.items,
                  next_id |-> Max2(IF DOMAIN r.items = {} THEN 1
                                   ELSE SetMax(DOMAIN r.items) + 1,
                                   repo.next_id)]

\* an apply_prepared that swaps the snapshot in and leaves the stage open
apply_prepared_keep_stage(repo, prepared) ==
    [items |-> prepared.items, next_id |-> prepared.next_id, staged |-> repo.staged]

\* Repository::apply_prepared
apply_prepared(repo, prepared) ==
    [items |-> prepared.items, next_id |-> prepared.next_id, staged |-> NoStage]

(***************************************************************************)
(* The application context: the three repositories (core/context.rs).      *)
(* A command result is [ok, err, ctx]: err is "" on success.               *)
(***************************************************************************)
Ctx(c, e, t) == [cards |-> c, events |-> e, tasks |-> t]

Ok(ctx) == [ok |-> TRUE, err |-> "", ctx |-> ctx]
Err(msg, ctx) == [ok |-> FALSE, err |-> msg, ctx |-> ctx]

(***************************************************************************)
(* Entities (core/models.rs)                                               *)
(***************************************************************************)
\* Card::new
Card_new(name, color) == [id |-> 1, name |-> name, color |-> color]

\* Card::modify
Card_modify(card, name, color) == [card EXCEPT !.name = name, !.color = color]

\* Event::new
Event_new(recurring, name, card_id, days, time_range) ==
    [id |-> 1, recurring |-> recurring, name |-> name, days |-> days,
     time_range |-> time_range, card_id |-> card_id]

\* Event::modify
Event_modify(event, recurring, name, card_id, days, time_range) ==
    [event EXCEPT !.recurring = recurring, !.name = name, !.days = days,
                  !.time_range = time_range, !.card_id = card_id]

\* Event::is_active_on_date
is_active_on_date(event, target_date) ==
    \E i \in 1..Len(event.days) : event.days[i] = target_date % DaysPerWeek

\* Task::new: hours and remaining_hours are kept in seconds
Task_new(name, hours, card_id, date) ==
    LET h == Max2(hours, 0) * SecondsPerHour
    IN [id |-> 1, name |-> name, hours |-> h, date |-> date, card_id |-> card_id,
        subtasks |-> <<>>, remaining_hours |-> h]

\* a Task::modify that keeps the subtasks of the former plan
Task_modify_keep_subtasks(task, name, hours, card_id, date) ==
    LET h == Max2(hours, 0) * SecondsPerHour
    IN [task EXCEPT !.name = name, !.hours = h, !.date = date, !.card_id = card_id,
                    !.remaining_hours = h]

\* Task::modify
Task_modify(task, name, hours, card_id, date) ==
    LET h == Max2(hours, 0) * SecondsPerHour
    IN [task EXCEPT !.name = name, !.hours = h, !.date = date, !.card_id = card_id,
                    !.remaining_hours = h, !.subtasks = <<>>]

\* SubTask::hours, in seconds
SubTask_hours(st) == st.time_range.end - st.time_range.start

\* a push_subtask_with_hours that records the subtask and forgets to take its
\* hours off remaining_hours
push_subtask_keep_remaining(task, time_range, date, hours) ==
    [task EXCEPT !.subtasks = Append(@, [task_id |-> task.id, date |-> date,
                                        time_range |-> time_range,
                                        overflow |-> FALSE])]

\* Task::push_subtask_with_hours
push_subtask_with_hours(task, time_range, date, hours) ==
    LET apply == Min2(Max2(hours, 0), task.remaining_hours)
    IN [task EXCEPT !.subtasks = Append(@, [task_id |-> task.id, date |-> date,
                                            time_range |-> time_range,
                                            overflow |-> FALSE]),
                    !.remaining_hours = @ - apply]

\* FreeTimeBlock::new
FreeTimeBlock_new(start_time, end_time) ==
    [start_time |-> start_time, end_time |-> end_time,
     remaining_free_time |-> Max2(end_time - start_time, 0)]

(***************************************************************************)
(* Scheduler: free blocks of a day  (scheduler/calendar_view.rs)           *)
(***************************************************************************)
\* ScheduleManager::new: days_to_plan
days_to_plan == 7

\* CalendarView::days
CalendarView_days(start, days) == [offset \in 1..days |-> start + (offset - 1)]

RECURSIVE SubtractLoop(_, _, _)
\* the loop of subtract_busy_from_free over the free list, from index i
SubtractLoop(free, busy, i) ==
    IF i > Len(free) THEN <<>>
    ELSE LET fb == free[i]
             out == IF busy.end <= fb.start_time \/ busy.start >= fb.end_time
                    THEN <<fb>>
                    ELSE (IF busy.start > fb.start_time
                          THEN <<FreeTimeBlock_new(fb.start_time, busy.start)>>
                          ELSE <<>>)
                         \o
                         (IF busy.end < fb.end_time
                          THEN <<FreeTimeBlock_new(busy.end, fb.end_time)>>
                          ELSE <<>>)
         IN out \o SubtractLoop(free, busy, i + 1)

\* a subtract_busy_from_free that only trims a block whose start the busy range
\* covers, and keeps a block the busy range starts inside of
subtract_head_only(free, busy) ==
    [i \in 1..Len(free) |->
        IF busy.start <= free[i].start_time /\ busy.end > free[i].start_time
              /\ busy.end < free[i].end_time
        THEN FreeTimeBlock_new(busy.end, free[i].end_time)
        ELSE free[i]]

\* CalendarView::subtract_busy_from_free
subtract_busy_from_free(free, busy) == SubtractLoop(free, busy, 1)

\* the sort key of coalesce_free_blocks: (start_time, end_time)
BlockKeyLE(a, b) ==
    \/ a.start_time < b.start_time
    \/ a.start_time = b.start_time /\ a.end_time <= b.end_time

RECURSIVE InsertBlock(_, _)
\* stable insertion of block b into the sorted list v
InsertBlock(b, v) ==
    IF v = <<>> THEN <<b>>
    ELSE IF BlockKeyLE(Head(v), b) THEN <<Head(v)>> \o InsertBlock(b, Tail(v))
         ELSE <<b>> \o v

RECURSIVE SortBlocks(_)
SortBlocks(v) ==
    IF v = <<>> THEN <<>>
    ELSE InsertBlock(v[Len(v)], SortBlocks(SubSeq(v, 1, Len(v) - 1)))

RECURSIVE CoalesceLoop(_, _, _)
\* the merge loop of coalesce_free_blocks: cur is the block being grown
CoalesceLoop(cur, v, i) ==
    IF i > Len(v) THEN <<cur>>
    ELSE LET b == v[i]
         IN IF b.start_time <= cur.end_time
            THEN IF b.end_time > cur.end_time
                 THEN CoalesceLoop([cur EXCEPT !.end_time = b.end_time,
                                               !.remaining_free_time = b.end_time - cur.start_time],
                                   v, i + 1)
                 ELSE CoalesceLoop(cur, v, i + 1)
            ELSE <<cur>> \o CoalesceLoop(b, v, i + 1)

\* CalendarView::coalesce_free_blocks
coalesce_free_blocks(v) ==
    IF v = <<>> THEN v
    ELSE LET sorted == SortBlocks(v)
         IN CoalesceLoop(sorted[1], sorted, 2)

RECURSIVE SubtractAll(_, _, _)
\* subtract the time ranges busy[i..] from the free list, one after the other
SubtractAll(free, busy, i) ==
    IF i > Len(busy) THEN free
    ELSE SubtractAll(subtract_busy_from_free(free, busy[i]), busy, i + 1)

RECURSIVE SubtasksOn(_, _, _)
\* the time ranges of the subtasks placed on `date`, of the tasks ids[i..]
SubtasksOn(items, ids, date) ==
    IF ids = <<>> THEN <<>>
    ELSE LET sts == items[Head(ids)].subtasks
         IN SelectSeq([k \in 1..Len(sts) |-> [date |-> sts[k].date,
                                             start |-> sts[k].time_range.start,
                                             end |-> sts[k].time_range.end]],
                      LAMBDA st : st.date = date)
            \o SubtasksOn(items, Tail(ids), date)

\* a free_blocks_for_date that subtracts the events only
free_blocks_events_only(ctx, date, day_range) ==
    LET free0   == <<FreeTimeBlock_new(day_range.start, day_range.end)>>
        evIds   == AscendingSeq({id \in DOMAIN ctx.events.items :
                                     is_active_on_date(ctx.events.items[id], date)})
        evBusy  == [k \in 1..Len(evIds) |-> ctx.events.items[evIds[k]].time_range]
    IN coalesce_free_blocks(SubtractAll(free0, evBusy, 1))

\* CalendarView::free_blocks_for_date.  The events and tasks are visited in
\* ascending id order; the list obtained does not depend on the order.
free_blocks_for_date(ctx, date, day_range) ==
    LET free0   == <<FreeTimeBlock_new(day_range.start, day_range.end)>>
        evIds   == AscendingSeq({id \in DOMAIN ctx.events.items :
                                     is_active_on_date(ctx.events.items[id], date)})
        evBusy  == [k \in 1..Len(evIds) |-> ctx.events.items[evIds[k]].time_range]
        free1   == SubtractAll(free0, evBusy, 1)
        stBusy  == SubtasksOn(ctx.tasks.items, AscendingSeq(DOMAIN ctx.tasks.items), date)
        free2   == SubtractAll(free1, stBusy, 1)
    IN coalesce_free_blocks(free2)

(***************************************************************************)
(* Scheduler: task order  (scheduler/comparator.rs)                        *)
(* A comparator yields -1 (Less), 0 (Equal) or 1 (Greater).                *)
(***************************************************************************)
IntCmp(a, b) == IF a < b THEN -1 ELSE IF a > b THEN 1 ELSE 0

\* ShortestTaskOrderComparator::cmp
ShortestTaskOrderComparator(a, b) ==
    LET by_due == IntCmp(a.date, b.date)
        by_rem == IntCmp(b.remaining_hours, a.remaining_hours)
    IN IF by_due # 0 THEN by_due
       ELSE IF by_rem # 0 THEN by_rem
       ELSE IntCmp(a.id, b.id)

\* LongestTaskOrderComparator::cmp
LongestTaskOrderComparator(a, b) ==
    LET by_due == IntCmp(a.date, b.date)
        by_rem == IntCmp(a.remaining_hours, b.remaining_hours)
    IN IF by_due # 0 THEN by_due
       ELSE IF by_rem # 0 THEN by_rem
       ELSE IntCmp(a.id, b.id)

\* DueDateOnlyComparator::cmp
DueDateOnlyComparator(a, b) ==
    LET by_due == IntCmp(a.date, b.date)
    IN IF by_due # 0 THEN by_due ELSE IntCmp(a.id, b.id)

\* make_task_order_comparator
make_task_order_comparator(kind, a, b) ==
    CASE kind = "shortest-task-first" -> ShortestTaskOrderComparator(a, b)
      [] kind = "longest-task-first"  -> LongestTaskOrderComparator(a, b)
      [] kind = "due-only"            -> DueDateOnlyComparator(a, b)

RECURSIVE InsertId(_, _, _, _)
\* stable insertion of id into the list v sorted by the comparator
InsertId(id, v, items, kind) ==
    IF v = <<>> THEN <<id>>
    ELSE IF make_task_order_comparator(kind, items[Head(v)], items[id]) <= 0
         THEN <<Head(v)>> \o InsertId(id, Tail(v), items, kind)
         ELSE <<id>> \o v

RECURSIVE SortIds(_, _, _)
SortIds(v, items, kind) ==
    IF v = <<>> THEN <<>>
    ELSE InsertId(v[Len(v)], SortIds(SubSeq(v, 1, Len(v) - 1), items, kind), items, kind)

\* a sorted_ids whose filter forgets the due date
sorted_ids_any_due(items, date, kind) ==
    SortIds(AscendingSeq({id \in DOMAIN items : items[id].remaining_hours > 0}),
            items, kind)

\* FilterSorter::sorted_ids as compute_schedule uses it: the ids of the tasks
\* that are candidates on `date`, sorted by the comparator.  The comparators
\* are total on distinct ids, so the HashMap order the ids are collected in
\* does not show in the result.
sorted_ids(items, date, kind) ==
    SortIds(AscendingSeq({id \in DOMAIN items :
                             date <= items[id].date /\ items[id].remaining_hours > 0}),
            items, kind)

(***************************************************************************)
(* Scheduler: overflow policy  (scheduler/overflow.rs)                     *)
(***************************************************************************)
\* AllowOverflow::handle
AllowOverflow_handle(task, placed_any) ==
    IF task.remaining_hours > 0 /\ placed_any /\ Len(task.subtasks) > 0
          /\ task.subtasks[Len(task.subtasks)].task_id = task.id
    THEN [ok |-> TRUE,
          task |-> [task EXCEPT !.subtasks[Len(task.subtasks)].overflow = TRUE]]
    ELSE [ok |-> TRUE, task |-> task]

\* BlockOverflow::handle
BlockOverflow_handle(task, placed_any) ==
    IF task.remaining_hours > 0
    THEN [ok |-> FALSE, task |-> task]
    ELSE [ok |-> TRUE, task |-> task]

\* make_overflow_handler
make_overflow_handler(policy, task, placed_any) ==
    CASE policy = "allow" -> AllowOverflow_handle(task, placed_any)
      [] policy = "block" -> BlockOverflow_handle(task, placed_any)

(***************************************************************************)
(* Scheduler: first-fit packer  (scheduler/packer.rs)                      *)
(***************************************************************************)
\* a select_block_idx that takes the last usable block
select_last_block(free) ==
    IF \E i \in 1..Len(free) : free[i].remaining_free_time > 0
    THEN CHOOSE i \in 1..Len(free) :
            /\ free[i].remaining_free_time > 0
            /\ \A j \in (i + 1)..Len(free) : ~(free[j].remaining_free_time > 0)
    ELSE 0

\* FirstFitPacker::select_block_idx: 0 stands for None
select_block_idx(free) ==
    IF \E i \in 1..Len(free) : free[i].remaining_free_time > 0
    THEN CHOOSE i \in 1..Len(free) :
            /\ free[i].remaining_free_time > 0
            /\ \A j \in 1..(i - 1) : ~(free[j].remaining_free_time > 0)
    ELSE 0

\* a place_one_block that finishes a task at the end of the block
place_at_block_end(task, date, block) ==
    LET need == task.remaining_hours
        cap  == block.remaining_free_time
    IN IF need <= cap
       THEN LET start_dt == block.end_time - need
                tr       == [start |-> start_dt, end |-> block.end_time]
                rest     == [block EXCEPT !.end_time = start_dt,
                                          !.remaining_free_time = start_dt - block.start_time]
            IN [task |-> push_subtask_with_hours(task, tr, date, need),
                finished |-> TRUE,
                leftover |-> IF rest.remaining_free_time > 0 THEN <<rest>> ELSE <<>>]
       ELSE LET tr == [start |-> block.start_time, end |-> block.end_time]
            IN [task |-> push_subtask_with_hours(task, tr, date, cap),
                finished |-> FALSE,
                leftover |-> <<>>]

\* FirstFitPacker::place_one_block
place_one_block(task, date, block) ==
    LET need == task.remaining_hours
        cap  == block.remaining_free_time
    IN IF need <= cap
       THEN LET end_dt == block.start_time + need
                tr     == [start |-> block.start_time, end |-> end_dt]
                rest   == [block EXCEPT !.start_time = end_dt,
                                        !.remaining_free_time = block.end_time - end_dt]
            IN [task |-> push_subtask_with_hours(task, tr, date, need),
                finished |-> TRUE,
                leftover |-> IF rest.remaining_free_time > 0 THEN <<rest>> ELSE <<>>]
       ELSE LET tr == [start |-> block.start_time, end |-> block.end_time]
            IN [task |-> push_subtask_with_hours(task, tr, date, cap),
                finished |-> FALSE,
                leftover |-> <<>>]

RemoveAt(s, i) == SubSeq(s, 1, i - 1) \o SubSeq(s, i + 1, Len(s))
InsertAt(s, i, b) == SubSeq(s, 1, i - 1) \o b \o SubSeq(s, i, Len(s))

\* a pack loop that gives up after the first block it uses
PackFirstBlockOnly(task, date, free) ==
    IF ~(task.remaining_hours > 0) THEN [task |-> task, free |-> free]
    ELSE LET idx == select_block_idx(free)
         IN IF idx = 0 THEN [task |-> task, free |-> free]
            ELSE LET step == place_one_block(task, date, free[idx])
                     rest == RemoveAt(free, idx)
                 IN IF step.finished
                    THEN [task |-> step.task, free |-> InsertAt(rest, idx, step.leftover)]
                    ELSE [task |-> step.task, free |-> rest]

RECURSIVE PackLoop(_, _, _)
\* the while loop of BlockPacker::pack
PackLoop(task, date, free) ==
    IF ~(task.remaining_hours > 0) THEN [task |-> task, free |-> free]
    ELSE LET idx == select_block_idx(free)
         IN IF idx = 0 THEN [task |-> task, free |-> free]
            ELSE LET step == place_one_block(task, date, free[idx])
                     rest == RemoveAt(free, idx)
                 IN IF step.finished
                    THEN [task |-> step.task, free |-> InsertAt(rest, idx, step.leftover)]
                    ELSE PackLoop(step.task, date, rest)

\* BlockPacker::pack
pack(task, date, free) ==
    IF task.remaining_hours <= 0 \/ free = <<>>
    THEN [task |-> task, free |-> free, outcome |-> "None"]
    ELSE LET start_remaining == task.remaining_hours
             r == PackLoop(task, date, free)
         IN [task |-> r.task, free |-> r.free,
             outcome |-> IF r.task.remaining_hours = start_remaining THEN "None"
                         ELSE IF r.task.remaining_hours > 0 THEN "Partial"
                         ELSE "Full"]

(***************************************************************************)
(* Scheduler: compute_schedule  (scheduler/mod.rs)                         *)
(***************************************************************************)
\* a reset_tasks that leaves the tasks as they are
reset_tasks_keeping(items) ==
    [id \in DOMAIN items |-> items[id]]

\* ScheduleManager::reset_tasks
reset_tasks(items) ==
    [id \in DOMAIN items |-> [items[id] EXCEPT !.subtasks = <<>>,
                                               !.remaining_hours = items[id].hours]]

\* the body of the for_each_mut closure of compute_schedule, for one task: the
\* result of overflow.handle is dropped (let _ = ...), its change to the task kept
schedule_one_task(task, date, free, policy) ==
    LET p == IF task.remaining_hours <= 0
             THEN [task |-> task, free |-> free, outcome |-> "None"]
             ELSE pack(task, date, free)
    IN IF p.outcome = "None"
       THEN [task |-> p.task, free |-> p.free]
       ELSE [task |-> make_overflow_handler(policy, p.task, TRUE).task, free |-> p.free]

RECURSIVE TaskLoop(_, _, _, _, _)
\* for_each_mut over the sorted candidate ids of one day
TaskLoop(items, ids, date, free, policy) ==
    IF ids = <<>> THEN items
    ELSE LET r == schedule_one_task(items[Head(ids)], date, free, policy)
         IN TaskLoop([items EXCEPT ![Head(ids)] = r.task], Tail(ids), date, r.free, policy)

RECURSIVE DayLoop(_, _, _, _)
\* the loop of compute_schedule over the planning days, from index i
DayLoop(ctx, cfg, days, i) ==
    IF i > Len(days) THEN ctx
    ELSE LET date == days[i]
             free == free_blocks_for_date(ctx, date, cfg.range)
             ids  == sorted_ids(ctx.tasks.items, date, cfg.order)
             done == TaskLoop(ctx.tasks.items, ids, date, free, cfg.policy)
         IN DayLoop([ctx EXCEPT !.tasks.items = done], cfg, days, i + 1)

\* the first planning day of compute_schedule
start_date(cfg, now) == IF cfg.schedule_start_date # NoDate THEN cfg.schedule_start_date ELSE now

\* ScheduleManager::compute_schedule: always returns Ok(())
compute_schedule(ctx, cfg, now) ==
    LET reset == [ctx EXCEPT !.tasks.items = reset_tasks(ctx.tasks.items)]
        days  == CalendarView_days(start_date(cfg, now), days_to_plan)
    IN Ok(DayLoop(reset, cfg, days, 1))

(***************************************************************************)
(* Entity commands  (command/entity_spec, command/commands.rs)             *)
(* The arguments of a command are modelled after parsing, as a record with *)
(* one field per slot of the pattern: an omitted optional card is NoCard,  *)
(* an omitted optional day list is <<>>.  A matcher yields the message of  *)
(* the first slot that rejects, "" when every slot accepts.                *)
(***************************************************************************)
\* common.rs id_slot
id_slot(id) == id > 0

\* TaskArgSchema::hours_slot
hours_slot(h) == h > 0

\* common.rs card_id_validator
card_id_validator(ctx, card) ==
    card = NoCard \/ exists_including_staged(ctx.cards, card)

\* common.rs daily_hour_range_validator
daily_hour_range_validator(cfg, range) ==
    ~(range.start < cfg.range.start \/ range.end > cfg.range.end)

\* common.rs task_start_date_validator
task_start_date_validator(cfg, d) ==
    cfg.schedule_start_date = NoDate \/ ~(d < cfg.schedule_start_date)

\* the kinds of the tokens of an event command, in the order they are typed:
\* an omitted card or day list contributes no token
EventTokens(args) ==
    <<"bool", "name">> \o (IF args.card # NoCard THEN <<"card">> ELSE <<>>)
        \o <<"at">> \o (IF args.days # <<>> THEN <<"days">> ELSE <<>>) \o <<"range">>

\* EventArgSchema::pattern_base: the kind and optionality of each slot
EventArgSchema_pattern_base ==
    <<[kind |-> "bool", validator |-> "", optional |-> FALSE],
      [kind |-> "name", validator |-> "", optional |-> FALSE],
      [kind |-> "card", validator |-> "card_id_validator", optional |-> TRUE],
      [kind |-> "at", validator |-> "", optional |-> FALSE],
      [kind |-> "days", validator |-> "", optional |-> TRUE],
      [kind |-> "range", validator |-> "daily_hour_range_validator", optional |-> FALSE]>>

RECURSIVE advance_until_arg(_, _, _, _, _)
\* ColumnIndexer::advance_until_arg: the index of the argument extracted, 0 for
\* None.  An optional slot that does not extract moves the slot only; a
\* required slot that does not extract moves the slot and the argument.
advance_until_arg(tokens, slots, slot_idx, arg_idx, kind) ==
    IF slot_idx > Len(slots) THEN 0
    ELSE IF arg_idx > Len(tokens)
         THEN IF slots[slot_idx].optional
              THEN advance_until_arg(tokens, slots, slot_idx + 1, arg_idx, kind)
              ELSE 0
    ELSE IF tokens[arg_idx] = kind THEN arg_idx
    ELSE IF slots[slot_idx].optional
         THEN advance_until_arg(tokens, slots, slot_idx + 1, arg_idx, kind)
    ELSE advance_until_arg(tokens, slots, slot_idx + 1, arg_idx + 1, kind)

\* common.rs validate_event_recurring_days: the day list is looked for after
\* the bool argument (the entity and id of pattern_entity_first shift slots
\* and arguments alike); the rule is applied only when it is found
validate_event_recurring_days(args) ==
    LET found == advance_until_arg(EventTokens(args), EventArgSchema_pattern_base, 2, 2, "days")
    IN found = 0 \/ args.recurring \/ Len(args.days) = 1

\* common.rs default_days_for
default_days_for(recurring, now) ==
    IF recurring THEN [i \in 1..DaysPerWeek |-> i - 1] ELSE <<now % DaysPerWeek>>

\* TaskArgSchema::pattern_base matched slot by slot
TaskPat_Base(ctx, cfg, args) ==
    IF ~hours_slot(args.hours) THEN "Hours must be greater than 0."
    ELSE IF ~card_id_validator(ctx, args.card) THEN "Card id does not exist."
    ELSE IF ~task_start_date_validator(cfg, args.date)
         THEN "Task due date cannot be before schedule start date."
    ELSE ""

\* EventArgSchema::pattern_base matched slot by slot, then EventArgValidator
EventPat_Base(ctx, cfg, args) ==
    IF ~card_id_validator(ctx, args.card) THEN "Card id does not exist."
    ELSE IF ~daily_hour_range_validator(cfg, args.time_range)
         THEN "Event falls outside of daily hours range from config"
    ELSE IF ~validate_event_recurring_days(args)
         THEN "Non-recurring events must have exactly one day."
    ELSE ""

\* pattern_entity_first: the id slot, then the base pattern
EntityFirst(id, base) == IF ~id_slot(id) THEN "ID must be greater than 0." ELSE base

\* TaskBuilder::create
TaskBuilder_create(args) == Task_new(args.name, args.hours, args.card, args.date)

\* EventBuilder::create
EventBuilder_create(args, now) ==
    Event_new(args.recurring, args.name, args.card,
              IF args.days = <<>> THEN default_days_for(args.recurring, now) ELSE args.days,
              args.time_range)

\* CardBuilder::create
CardBuilder_create(args) == Card_new(args.name, args.color)

\* handle_add with the id taken before the arguments are matched
handle_add_id_first(ctx, cfg, now, entity, args) ==
    LET r == entity \o "s"
        m == CASE entity = "task" -> TaskPat_Base(ctx, cfg, args)
               [] entity = "event" -> EventPat_Base(ctx, cfg, args)
               [] entity = "card" -> ""
        e == CASE entity = "task" -> TaskBuilder_create(args)
               [] entity = "event" -> EventBuilder_create(args, now)
               [] entity = "card" -> CardBuilder_create(args)
    IN IF m # "" THEN Err(m, [ctx EXCEPT ![r].next_id = @ + 1])
       ELSE Ok([ctx EXCEPT ![r] = insert(@, e)])

\* EntityCommand::handle_add
handle_add(ctx, cfg, now, entity, args) ==
    CASE entity = "task" ->
           LET m == TaskPat_Base(ctx, cfg, args)
           IN IF m # "" THEN Err(m, ctx)
              ELSE Ok([ctx EXCEPT !.tasks = insert(@, TaskBuilder_create(args))])
      [] entity = "event" ->
           LET m == EventPat_Base(ctx, cfg, args)
           IN IF m # "" THEN Err(m, ctx)
              ELSE Ok([ctx EXCEPT !.events = insert(@, EventBuilder_create(args, now))])
      [] entity = "card" ->
           Ok([ctx EXCEPT !.cards = insert(@, CardBuilder_create(args))])

\* Repository::get_mut: only the live map is searched
get_mut(repo, id) == id \in DOMAIN repo.items

\* EntityCommand::handle_modify: the pattern is matched first, then the
\* entity is looked up and rewritten in place
handle_modify(ctx, cfg, now, entity, id, args) ==
    CASE entity = "task" ->
           LET m == EntityFirst(id, TaskPat_Base(ctx, cfg, args))
           IN IF m # "" THEN Err(m, ctx)
              ELSE IF ~get_mut(ctx.tasks, id) THEN Err("Entity not found.", ctx)
              ELSE Ok([ctx EXCEPT !.tasks.items[id] =
                          Task_modify(@, args.name, args.hours, args.card, args.date)])
      [] entity = "event" ->
           LET m == EntityFirst(id, EventPat_Base(ctx, cfg, args))
           IN IF m # "" THEN Err(m, ctx)
              ELSE IF ~get_mut(ctx.events, id) THEN Err("Entity not found.", ctx)
              ELSE Ok([ctx EXCEPT !.events.items[id] =
                          Event_modify(@, args.recurring, args.name, args.card,
                                       IF args.days = <<>>
                                       THEN default_days_for(args.recurring, now)
                                       ELSE args.days,
                                       args.time_range)])
      [] entity = "card" ->
           LET m == EntityFirst(id, "")
           IN IF m # "" THEN Err(m, ctx)
              ELSE IF ~get_mut(ctx.cards, id) THEN Err("Entity not found.", ctx)
              ELSE Ok([ctx EXCEPT !.cards.items[id] = Card_modify(@, args.name, args.color)])

\* a handle_delete that refuses to delete a card some task or event refers to
handle_delete_unreferenced(ctx, entity, id) ==
    LET m == EntityFirst(id, "")
        r == delete(ctx[entity \o "s"], id)
        used == \/ \E k \in DOMAIN ctx.tasks.items : ctx.tasks.items[k].card_id = id
                \/ \E k \in DOMAIN ctx.events.items : ctx.events.items[k].card_id = id
    IN IF m # "" THEN Err(m, ctx)
       ELSE IF ~r.ok THEN Err("Entity not found.", ctx)
       ELSE IF entity = "card" /\ used THEN Err("Card is referenced.", ctx)
       ELSE Ok([ctx EXCEPT ![entity \o "s"] = r.repo])

\* EntityCommand::handle_delete
handle_delete(ctx, entity, id) ==
    LET m == EntityFirst(id, "")
        r == delete(ctx[entity \o "s"], id)
    IN IF m # "" THEN Err(m, ctx)
       ELSE IF ~r.ok THEN Err("Entity not found.", ctx)
       ELSE Ok([ctx EXCEPT ![entity \o "s"] = r.repo])

\* EntityCommand::perform, for a command [action, entity, id, args]
perform(ctx, cfg, now, cmd) ==
    CASE cmd.action = "add" -> handle_add(ctx, cfg, now, cmd.entity, cmd.args)
      [] cmd.action = "mod" -> handle_modify(ctx, cfg, now, cmd.entity, cmd.id, cmd.args)
      [] cmd.action = "del" -> handle_delete(ctx, cmd.entity, cmd.id)

(***************************************************************************)
(* Transaction and CommandQueue  (core/transaction.rs)                     *)
(* The participants are, in order, cards, events, tasks.                   *)
(***************************************************************************)
participants_reversed == <<"tasks", "events", "cards">>

participants == <<"cards", "events", "tasks">>

\* no Transaction::run is in progress.  While one is, tx holds where run
\* stands (pc, and the index i of the participant its loop is at), its
\* clear_existing, the commands of its closure with the index j of the next,
\* and the snapshots the participants have prepared.
NoTransaction ==
    [pc |-> "idle", i |-> 0, clear_existing |-> FALSE, ops |-> <<>>, j |-> 0, prepared |-> <<>>]

\* no compute_schedule is in progress.  While one is, sm holds where it stands
\* (pc, and the index i of the planning day), the candidate ids of the day
\* still to be packed and those already picked, the free list of the day,
\* and for the pack call in progress the task's remaining_hours and the free
\* list at its start, the iterations of its loop and its outcome.
NoSchedule ==
    [pc |-> "idle", i |-> 0, ids |-> <<>>, picked |-> <<>>, free |-> <<>>,
     start_remaining |-> 0, start_free |-> <<>>, iters |-> 0, outcome |-> "None"]

RECURSIVE begin_all_from(_, _, _)
\* Transaction::begin_all: the first participant that refuses ends the loop,
\* the stages opened before it stay open
begin_all_from(ctx, clear_existing, i) ==
    IF i > Len(participants) THEN Ok(ctx)
    ELSE LET r == begin_stage(ctx[participants[i]], clear_existing)
         IN IF ~r.ok THEN Err("Repository is already staged.", ctx)
            ELSE begin_all_from([ctx EXCEPT ![participants[i]] = r.repo],
                                clear_existing, i + 1)

begin_all(ctx, clear_existing) == begin_all_from(ctx, clear_existing, 1)

\* RepoParticipant::references: the card ids named by the pending entities
references(repo) ==
    {repo.staged.pending[i].card_id : i \in 1..Len(repo.staged.pending)} \ {NoCard}

\* a validation that looks at the references of the pending events only
validate_associations_events_only(ctx) ==
    LET pool == staged_effective_ids(ctx.cards)
    IN IF ~pool.ok
       THEN Err("Repository is not staged.", ctx)
       ELSE IF \E cid \in references(ctx.events) : cid \notin pool.ids
            THEN Err("Referenced id not present in transaction.", ctx)
            ELSE Ok(ctx)

\* Transaction::validate_associations: the id pool is that of the cards, the
\* references are those of the pending events and tasks
validate_associations(ctx) ==
    LET pool == staged_effective_ids(ctx.cards)
    IN IF ~pool.ok
       THEN Err("Repository is not staged.", ctx)
       ELSE IF \E cid \in references(ctx.events) \cup references(ctx.tasks) :
                  cid \notin pool.ids
            THEN Err("Referenced id not present in transaction.", ctx)
            ELSE Ok(ctx)

\* Transaction::prepare_all followed by Transaction::apply_all: a snapshot is
\* computed for every participant before any is applied
prepare_and_apply_all(ctx) ==
    LET pc == prepare_commit(ctx.cards)
        pe == prepare_commit(ctx.events)
        pt == prepare_commit(ctx.tasks)
    IN IF ~(pc.ok /\ pe.ok /\ pt.ok)
       THEN Err("Entity with id already exists.", ctx)
       ELSE Ok(Ctx(apply_prepared(ctx.cards, pc),
                   apply_prepared(ctx.events, pe),
                   apply_prepared(ctx.tasks, pt)))

\* Transaction::discard_all
discard_all(ctx) ==
    Ctx(discard_stage(ctx.cards), discard_stage(ctx.events), discard_stage(ctx.tasks))

RECURSIVE run_ops(_, _, _, _, _)
\* the closure CommandQueue::execute hands to run: the commands in order,
\* stopping at the first that fails
run_ops(ctx, cfg, now, ops, i) ==
    IF i > Len(ops) THEN Ok(ctx)
    ELSE LET r == perform(ctx, cfg, now, ops[i])
         IN IF ~r.ok THEN r ELSE run_ops(r.ctx, cfg, now, ops, i + 1)

\* Transaction::run with the closure of CommandQueue::execute.  Only the Err
\* arm of the match on the closure's outcome calls discard_all; the errors of
\* begin_all, validate_associations, prepare_all and apply_all leave through `?`.
run(ctx, cfg, now, clear_existing, ops) ==
    LET b == begin_all(ctx, clear_existing)
    IN IF ~b.ok THEN b
       ELSE LET outcome == run_ops(b.ctx, cfg, now, ops, 1)
            IN IF ~outcome.ok THEN Err(outcome.err, discard_all(outcome.ctx))
               ELSE LET v == validate_associations(outcome.ctx)
                    IN IF ~v.ok THEN v ELSE prepare_and_apply_all(outcome.ctx)

\* CommandQueue::execute
CommandQueue_execute(ctx, cfg, now, clear_existing, ops) ==
    run(ctx, cfg, now, clear_existing, ops)

(***************************************************************************)
(* Save and load  (core/persist.rs, arg/arg_emitter.rs)                    *)
(* A save file holds, per section, the argument lists of the add commands  *)
(* that rebuild the entities.                                              *)
(***************************************************************************)
NoFile == [exists |-> FALSE, cards |-> <<>>, events |-> <<>>, tasks |-> <<>>]

\* serialize_cards_for_save: the id lookup maps the cards' ids, ascending, to 1..n
IdLookup(cards_sorted) ==
    [id \in Range(cards_sorted) |-> CHOOSE k \in 1..Len(cards_sorted) : cards_sorted[k] = id]

\* a translate_ref that writes the stored card id as it is
translate_ref_verbatim(lookup, card_id) == card_id

\* SaveEmitContext::translate_ref, for a reference the lookup holds; a reference
\* it does not hold is the error build_save_file returns
translate_ref(lookup, card_id) ==
    IF card_id = NoCard THEN NoCard
    ELSE lookup[card_id]

\* CardArgEmitter::with_entity
CardArgEmitter(card) == [name |-> card.name, color |-> card.color]

\* EventArgEmitter::with_entity
EventArgEmitter(event, lookup) ==
    [recurring |-> event.recurring, name |-> event.name,
     card |-> translate_ref(lookup, event.card_id),
     days |-> event.days, time_range |-> event.time_range]

\* TaskArgEmitter::with_entity: the hours are written as a rounded integer
TaskArgEmitter(task, lookup) ==
    [name |-> task.name,
     hours |-> (2 * task.hours + SecondsPerHour) \div (2 * SecondsPerHour),
     card |-> translate_ref(lookup, task.card_id), date |-> task.date]

\* a build_save_file that writes a reference to a card that is not stored as
\* no reference, instead of failing
build_save_file_dropping_refs(ctx) ==
    LET cids   == AscendingSeq(DOMAIN ctx.cards.items)
        eids   == AscendingSeq(DOMAIN ctx.events.items)
        tids   == AscendingSeq(DOMAIN ctx.tasks.items)
        lookup == IdLookup(cids)
        kept(e) == IF e.card_id \in DOMAIN lookup THEN e ELSE [e EXCEPT !.card_id = NoCard]
    IN [ok |-> TRUE,
        file |-> [exists |-> TRUE,
                  cards  |-> [k \in 1..Len(cids) |-> CardArgEmitter(ctx.cards.items[cids[k]])],
                  events |-> [k \in 1..Len(eids) |->
                                 EventArgEmitter(kept(ctx.events.items[eids[k]]), lookup)],
                  tasks  |-> [k \in 1..Len(tids) |->
                                 TaskArgEmitter(kept(ctx.tasks.items[tids[k]]), lookup)]]]

\* build_save_file
build_save_file(ctx) ==
    LET cids   == AscendingSeq(DOMAIN ctx.cards.items)
        eids   == AscendingSeq(DOMAIN ctx.events.items)
        tids   == AscendingSeq(DOMAIN ctx.tasks.items)
        lookup == IdLookup(cids)
        missing(items) == \E id \in DOMAIN items :
                             /\ items[id].card_id # NoCard
                             /\ items[id].card_id \notin DOMAIN lookup
    IN IF missing(ctx.events.items) \/ missing(ctx.tasks.items)
       THEN [ok |-> FALSE, file |-> NoFile]
       ELSE [ok |-> TRUE,
             file |-> [exists |-> TRUE,
                       cards  |-> [k \in 1..Len(cids) |-> CardArgEmitter(ctx.cards.items[cids[k]])],
                       events |-> [k \in 1..Len(eids) |->
                                      EventArgEmitter(ctx.events.items[eids[k]], lookup)],
                       tasks  |-> [k \in 1..Len(tids) |->
                                      TaskArgEmitter(ctx.tasks.items[tids[k]], lookup)]]]

\* the queue load_state builds: the cards, then the events, then the tasks
load_queue(f) ==
    [k \in 1..Len(f.cards) |-> [action |-> "add", entity |-> "card", id |-> 0, args |-> f.cards[k]]]
    \o [k \in 1..Len(f.events) |-> [action |-> "add", entity |-> "event", id |-> 0, args |-> f.events[k]]]
    \o [k \in 1..Len(f.tasks) |-> [action |-> "add", entity |-> "task", id |-> 0, args |-> f.tasks[k]]]

\* load_state
load_state(ctx, cfg, now, f) ==
    IF ~f.exists THEN Err("No such file.", ctx)
    ELSE CommandQueue_execute(ctx, cfg, now, TRUE, load_queue(f))

(***************************************************************************)
(* Bounds and inputs of the session specification.                         *)
(***************************************************************************)
MaxId == 2
MaxEvents == 1
Today == 10
DayStartHour == 8
DayEndHour == 10

Hour(h) == h * SecondsPerHour

Entities == {"card", "event", "task"}

\* the configuration the session is started with
Configs ==
    {[range |-> [start |-> Hour(DayStartHour), end |-> Hour(DayEndHour)],
      order |-> "longest-task-first", policy |-> "allow", schedule_start_date |-> NoDate]}

CardArgs == {[name |-> "c", color |-> col] : col \in {"RED", "BLUE"}}

EventArgs ==
    {[recurring |-> TRUE, name |-> "e", card |-> NoCard, days |-> <<>>,
      time_range |-> [start |-> Hour(DayStartHour), end |-> Hour(DayStartHour + 1)]]}

TaskArgs ==
    {[name |-> "t", hours |-> h, card |-> c, date |-> Today + 1] :
        h \in {0, 3}, c \in {NoCard, 1}}

ArgsOf(entity) ==
    CASE entity = "card" -> CardArgs
      [] entity = "event" -> EventArgs
      [] entity = "task" -> TaskArgs

\* the save files a read may name: absent, empty, a card with a task that
\* refers to it, a task that refers to a card the file does not hold
Files ==
    {NoFile,
     [exists |-> TRUE, cards |-> <<>>, events |-> <<>>, tasks |-> <<>>],
     [exists |-> TRUE, cards |-> <<[name |-> "c", color |-> "RED"]>>, events |-> <<>>,
      tasks |-> <<[name |-> "t", hours |-> 3, card |-> 1, date |-> Today + 1]>>],
     [exists |-> TRUE, cards |-> <<>>, events |-> <<>>,
      tasks |-> <<[name |-> "t", hours |-> 3, card |-> 1, date |-> Today + 1]>>]}

\* the repositories as a context record
State == Ctx(cards, events, tasks)

\* the bound on the ids handed out: an add is explored while next_id is at most cap
CanAdd(entity, cap) == State[entity \o "s"].next_id <= cap

SessionCap(entity) == IF entity = "event" THEN MaxEvents ELSE MaxId

\* the main loop after a command: the repositories are what the command left,
\* its result is logged, the loop goes on
Step(cmd, r) ==
    /\ cards' = r.ctx.cards
    /\ events' = r.ctx.events
    /\ tasks' = r.ctx.tasks
    /\ last' = [cmd |-> cmd, ok |-> r.ok, err |-> r.err]
    /\ UNCHANGED <<config, today, tx, sm>>

InitWith(cfgs) ==
    /\ cards = Repository_new
    /\ events = Repository_new
    /\ tasks = Repository_new
    /\ config \in cfgs
    /\ today = Today
    /\ last = [cmd |-> "start", ok |-> TRUE, err |-> ""]
    /\ tx = NoTransaction
    /\ sm = NoSchedule

Init == InitWith(Configs)

\* <entity> <args>
Add(entity, args) ==
    LET r == handle_add(State, config, today, entity, args)
    IN Step("add", r)

\* mod <entity> <id> <args>
Modify(entity, id, args) ==
    LET r == handle_modify(State, config, today, entity, id, args)
    IN Step("mod", r)

\* del <entity> <id>
Delete(entity, id) ==
    LET r == handle_delete(State, entity, id)
    IN Step("del", r)

\* schedule
Schedule ==
    LET r == compute_schedule(State, config, today)
    IN Step("schedule", r)

\* save <name>: the file written is not part of the session's state
Save ==
    LET r == build_save_file(State)
    IN Step("save", IF r.ok THEN Ok(State)
                    ELSE Err("Reference to missing card id when building save file.", State))

\* read <path>
Read(f) ==
    LET r == load_state(State, config, today, f)
    IN Step("read", r)

Next ==
    \/ \E e \in Entities : \E a \in ArgsOf(e) : CanAdd(e, SessionCap(e)) /\ Add(e, a)
    \/ \E e \in Entities : \E id \in 1..MaxId : \E a \in ArgsOf(e) : Modify(e, id, a)
    \/ \E e \in Entities : \E id \in 1..MaxId : Delete(e, id)
    \/ Schedule
    \/ Save
    \/ \E f \in Files : Read(f)

Spec == Init /\ [][Next]_vars

(***************************************************************************)
(* The transaction specification: the session commands, and command queues *)
(* executed through CommandQueue::execute with either value of             *)
(* clear_existing.                                                         *)
(***************************************************************************)
AddOp(entity, args) == [action |-> "add", entity |-> entity, id |-> 0, args |-> args]
DelOp(entity, id) == [action |-> "del", entity |-> entity, id |-> id, args |-> <<>>]

TaskOn(card, hours) == [name |-> "t", hours |-> hours, card |-> card, date |-> Today + 1]

\* the queues: a card; a task on card 1; a task on card 1 and then the
\* deletion of card 1; the deletion of card 1 and then a task the hours slot
\* rejects
QueueOps ==
    {<<AddOp("card", [name |-> "c", color |-> "RED"])>>,
     <<AddOp("task", TaskOn(1, 2))>>,
     <<AddOp("task", TaskOn(1, 2)), DelOp("card", 1)>>,
     <<DelOp("card", 1), AddOp("task", TaskOn(NoCard, 0))>>}

\* CommandQueue::execute
Execute(clear_existing, ops) ==
    LET r == CommandQueue_execute(State, config, today, clear_existing, ops)
    IN Step("execute", r)

\* the arguments of the commands that build the repositories the queues run on
TxArgsOf(entity) ==
    CASE entity = "card" -> {[name |-> "c", color |-> "RED"]}
      [] entity = "event" -> EventArgs
      [] entity = "task" -> {TaskOn(NoCard, 2), TaskOn(1, 2)}

TxNext ==
    \/ \E e \in Entities : \E a \in TxArgsOf(e) : CanAdd(e, SessionCap(e)) /\ Add(e, a)
    \/ \E e \in Entities : \E id \in 1..MaxId : Delete(e, id)
    \/ \E f \in Files : Read(f)
    \/ \E clear_existing \in BOOLEAN : \E ops \in QueueOps :
          /\ CanAdd("card", MaxId)
          /\ CanAdd("task", MaxId)
          /\ Execute(clear_existing, ops)

TxSpec == Init /\ [][TxNext]_vars

(***************************************************************************)
(* The scheduler specification: tasks and events are added and the         *)
(* schedule is computed, under each order and each overflow policy.        *)
(***************************************************************************)
MaxTasks == 3
MaxSchedEvents == 2
SchedDayEndHour == 11
LongTaskHours == 8

SchedConfig(order, policy, start) ==
    [range |-> [start |-> Hour(DayStartHour), end |-> Hour(SchedDayEndHour)],
     order |-> order, policy |-> policy, schedule_start_date |-> start]

SchedConfigs ==
    {SchedConfig(o, "allow", NoDate) :
        o \in {"longest-task-first", "shortest-task-first", "due-only"}}
    \cup {SchedConfig("longest-task-first", "block", NoDate),
          SchedConfig("longest-task-first", "allow", Today + 1)}

\* tasks due today, tomorrow, after the planning window and yesterday
SchedTaskArgs ==
    {[name |-> "t", hours |-> 1, card |-> NoCard, date |-> Today],
     [name |-> "t", hours |-> 2, card |-> NoCard, date |-> Today],
     [name |-> "t", hours |-> 2, card |-> NoCard, date |-> Today + 1],
     [name |-> "t", hours |-> LongTaskHours, card |-> NoCard, date |-> Today + DaysPerWeek],
     [name |-> "t", hours |-> 1, card |-> NoCard, date |-> Today - 1]}

\* an event on every day, an event on today's weekday, an event on tomorrow's
SchedEventArgs ==
    {[recurring |-> TRUE, name |-> "e", card |-> NoCard, days |-> <<>>,
      time_range |-> [start |-> Hour(DayStartHour + 1), end |-> Hour(SchedDayEndHour)]],
     [recurring |-> FALSE, name |-> "e", card |-> NoCard, days |-> <<>>,
      time_range |-> [start |-> Hour(DayStartHour), end |-> Hour(DayStartHour + 1)]],
     [recurring |-> TRUE, name |-> "e", card |-> NoCard,
      days |-> <<(Today + 1) % DaysPerWeek>>,
      time_range |-> [start |-> Hour(DayStartHour + 1), end |-> Hour(DayStartHour + 2)]]}

SchedInit == InitWith(SchedConfigs)

SchedNext ==
    \/ \E a \in SchedTaskArgs : CanAdd("task", MaxTasks) /\ Add("task", a)
    \/ \E a \in SchedEventArgs : CanAdd("event", MaxSchedEvents) /\ Add("event", a)
    \/ Schedule

SchedSpec == SchedInit /\ [][SchedNext]_vars

(***************************************************************************)
(* The start-date specification: the scheduler commands under a            *)
(* configuration whose schedule_start_date is unset, after today, or       *)
(* before today (the config item accepts any date that parses).            *)
(***************************************************************************)
StartConfigs ==
    {SchedConfig("longest-task-first", "allow", s) : s \in {NoDate, Today + 1, Today - 1}}

StartInit == InitWith(StartConfigs)

StartSpec == StartInit /\ [][SchedNext]_vars

(***************************************************************************)
(* The persistence specification: entities are added and deleted, the      *)
(* configuration is edited through the config command, and the state is    *)
(* saved to a file that is read back at once.                              *)
(***************************************************************************)
\* Config::set_key: the item named by the key takes the new value
set_key(cfg, key, value) == [cfg EXCEPT ![key] = value]

\* config, then the id of a key and its new value
ConfigEdit(key, value) ==
    /\ config' = set_key(config, key, value)
    /\ last' = [cmd |-> "config", ok |-> TRUE, err |-> ""]
    /\ UNCHANGED <<cards, events, tasks, today, tx, sm>>

\* save <name> followed by read <name>: the file read is the one just written;
\* when the save fails no file is written and the read is not issued
SaveThenRead ==
    LET s == build_save_file(State)
    IN Step("save-read",
            IF s.ok THEN load_state(State, config, today, s.file)
            ELSE Err("Reference to missing card id when building save file.", State))

PersistCardArgs == {[name |-> "c", color |-> "RED"], [name |-> "d", color |-> "BLUE"]}

PersistEventArgs ==
    {[recurring |-> TRUE, name |-> "e", card |-> c, days |-> <<>>,
      time_range |-> [start |-> Hour(DayStartHour), end |-> Hour(DayStartHour + 1)]] :
        c \in {NoCard, 2}}

PersistTaskArgs ==
    {[name |-> "t", hours |-> 2, card |-> c, date |-> Today + 1] : c \in {NoCard, 1, 2}}

PersistArgsOf(entity) ==
    CASE entity = "card" -> PersistCardArgs
      [] entity = "event" -> PersistEventArgs
      [] entity = "task" -> PersistTaskArgs

\* the daily windows the editor is given: the initial one, and one that
\* starts an hour later
PersistRanges ==
    {[start |-> Hour(h), end |-> Hour(DayEndHour)] : h \in {DayStartHour, DayStartHour + 1}}

\* the start dates the editor is given: none, and the day after tomorrow
PersistStartDates == {NoDate, Today + 2}

PersistNext ==
    \/ \E e \in Entities : \E a \in PersistArgsOf(e) : CanAdd(e, SessionCap(e)) /\ Add(e, a)
    \/ \E e \in Entities : \E id \in 1..MaxId : Delete(e, id)
    \/ \E r \in PersistRanges : ConfigEdit("range", r)
    \/ \E d \in PersistStartDates : ConfigEdit("schedule_start_date", d)
    \/ Save
    \/ SaveThenRead

PersistSpec == Init /\ [][PersistNext]_vars

(***************************************************************************)
(* The free-time specification: the scheduler commands with the daily      *)
(* window edited after events were added and tasks were placed, so that    *)
(* events and subtasks lie partly or wholly outside the window.            *)
(***************************************************************************)
FreeRanges ==
    {[start |-> Hour(DayStartHour), end |-> Hour(SchedDayEndHour)],
     [start |-> Hour(DayStartHour + 1), end |-> Hour(SchedDayEndHour + 1)]}

\* an event in the second hour of every day, an event on today's weekday over
\* the first two hours, an event on tomorrow's weekday in the first hour
FreeEventArgs ==
    {[recurring |-> TRUE, name |-> "e", card |-> NoCard, days |-> <<>>,
      time_range |-> [start |-> Hour(DayStartHour + 1), end |-> Hour(DayStartHour + 2)]],
     [recurring |-> FALSE, name |-> "e", card |-> NoCard, days |-> <<>>,
      time_range |-> [start |-> Hour(DayStartHour), end |-> Hour(DayStartHour + 2)]],
     [recurring |-> TRUE, name |-> "e", card |-> NoCard,
      days |-> <<(Today + 1) % DaysPerWeek>>,
      time_range |-> [start |-> Hour(DayStartHour), end |-> Hour(DayStartHour + 1)]]}

FreeNext ==
    \/ \E a \in SchedTaskArgs : CanAdd("task", MaxId) /\ Add("task", a)
    \/ \E a \in FreeEventArgs : CanAdd("event", MaxSchedEvents) /\ Add("event", a)
    \/ \E r \in FreeRanges : ConfigEdit("range", r)
    \/ Schedule

FreeSpec == Init /\ [][FreeNext]_vars

(***************************************************************************)
(* The event specification: event lines with and without a card and a day  *)
(* list, recurring or not, added, modified, and saved and read back.       *)
(***************************************************************************)
DaysEventArgs ==
    {[recurring |-> rec, name |-> "e", card |-> c, days |-> d,
      time_range |-> [start |-> Hour(DayStartHour), end |-> Hour(DayStartHour + 1)]] :
        rec \in BOOLEAN, c \in {NoCard, 1}, d \in {<<>>, <<1>>, <<1, 2>>}}

DaysNext ==
    \/ \E a \in PersistCardArgs : CanAdd("card", MaxEvents) /\ Add("card", a)
    \/ \E a \in DaysEventArgs : CanAdd("event", MaxId) /\ Add("event", a)
    \/ \E id \in 1..MaxId : \E a \in DaysEventArgs : Modify("event", id, a)
    \/ SaveThenRead

DaysSpec == Init /\ [][DaysNext]_vars

(***************************************************************************)
(* The flag specification: the interactive commands without load, and      *)
(* lines that carry a help flag as argument number at (counted from 0).     *)
(***************************************************************************)
\* EntityCommand::new and the global commands' constructors: the index the
\* HelpAtIdx rule of the command looks at
help_idx(cmd) == IF cmd \in {"mod", "del"} THEN 1 ELSE 0

\* a policy that never short-circuits
evaluate_continue(idx, at) == "Continue"

\* FlagPolicy::evaluate with the single rule HelpAtIdx(idx), for an argument
\* list whose help flag is argument number at
evaluate(idx, at) == IF at = idx THEN "ShortCircuitUsage" ELSE "Continue"

\* perform for a line with a help flag: the entity patterns have no slot a
\* flag matches, schedule ignores its arguments, save takes the name that
\* stands before the flag
perform_flagged(ctx, cfg, now, cmd) ==
    CASE cmd = "schedule" -> compute_schedule(ctx, cfg, now)
      [] cmd = "save" ->
           IF build_save_file(ctx).ok THEN Ok(ctx)
           ELSE Err("Reference to missing card id when building save file.", ctx)
      [] OTHER -> Err("Argument does not match the pattern.", ctx)

\* CommandParser resolution followed by Command::execute.  mod and del are
\* resolved only when the first argument is an entity type.
execute(ctx, cfg, now, cmd, at) ==
    IF cmd \in {"mod", "del"} /\ at = 0
    THEN Err("Expected entity type as first argument.", ctx)
    ELSE IF evaluate(help_idx(cmd), at) = "ShortCircuitUsage" THEN Ok(ctx)
    ELSE perform_flagged(ctx, cfg, now, cmd)

FlaggedCommands == {"add", "mod", "del", "schedule", "save"}

\* a line with a help flag
ExecuteFlagged(cmd, at) == Step(cmd, execute(State, config, today, cmd, at))

FlagNext ==
    \/ \E e \in Entities : \E a \in ArgsOf(e) : CanAdd(e, SessionCap(e)) /\ Add(e, a)
    \/ \E e \in Entities : \E id \in 1..MaxId : \E a \in ArgsOf(e) : Modify(e, id, a)
    \/ \E e \in Entities : \E id \in 1..MaxId : Delete(e, id)
    \/ Schedule
    \/ Save
    \/ \E cmd \in FlaggedCommands : \E at \in {0, 1} : ExecuteFlagged(cmd, at)

FlagSpec == Init /\ [][FlagNext]_vars

(***************************************************************************)
(* The run specification: Transaction::run taken one call at a time.  The  *)
(* session commands are read while no run is in progress; a run opens the  *)
(* stages participant by participant, calls the commands of its closure,   *)
(* validates, prepares participant by participant and applies participant  *)
(* by participant.  Every way out of run returns to the session with the   *)
(* result of CommandQueue::execute.                                        *)
(***************************************************************************)
ModOp(entity, id, args) == [action |-> "mod", entity |-> entity, id |-> id, args |-> args]

EventOn(card) ==
    [recurring |-> TRUE, name |-> "e", card |-> card, days |-> <<>>,
     time_range |-> [start |-> Hour(DayStartHour), end |-> Hour(DayStartHour + 1)]]

\* the queues of the run specification: those of QueueOps, a card followed by
\* a task and an event on card 1, a task moved onto card 1, two cards
RunQueues ==
    QueueOps \cup
    {<<AddOp("card", [name |-> "c", color |-> "RED"]), AddOp("task", TaskOn(1, 2)),
       AddOp("event", EventOn(1))>>,
     <<ModOp("task", 1, TaskOn(1, 2))>>,
     <<AddOp("card", [name |-> "c", color |-> "RED"]),
       AddOp("card", [name |-> "d", color |-> "BLUE"])>>}

Idle == tx.pc = "idle"

\* the way out of run: the Transaction is dropped, execute's result is logged
Return(ctx, ok, err) ==
    /\ cards' = ctx.cards /\ events' = ctx.events /\ tasks' = ctx.tasks
    /\ tx' = NoTransaction
    /\ last' = [cmd |-> "execute", ok |-> ok, err |-> err]
    /\ UNCHANGED <<config, today, sm>>

\* a call inside run that lets run go on
Proceed(ctx, call, next) ==
    /\ cards' = ctx.cards /\ events' = ctx.events /\ tasks' = ctx.tasks
    /\ tx' = next
    /\ last' = [cmd |-> call, ok |-> TRUE, err |-> ""]
    /\ UNCHANGED <<config, today, sm>>

\* where run stands after its closure has called j - 1 of its commands
AfterOp(t, j) ==
    IF j > Len(t.ops) THEN [t EXCEPT !.pc = "validate", !.j = j]
    ELSE [t EXCEPT !.pc = "f", !.j = j]

\* CommandQueue::execute enters Transaction::run
run_enter(clear_existing, ops) ==
    /\ Idle
    /\ tx' = [NoTransaction EXCEPT !.pc = "begin", !.i = 1,
                                    !.clear_existing = clear_existing, !.ops = ops]
    /\ last' = [cmd |-> "run", ok |-> TRUE, err |-> ""]
    /\ UNCHANGED <<cards, events, tasks, config, today, sm>>

\* Transaction::begin_all, one participant
begin_all_step ==
    /\ tx.pc = "begin"
    /\ LET p == participants[tx.i]
           r == begin_stage(State[p], tx.clear_existing)
       IN IF ~r.ok THEN Return(State, FALSE, "Repository is already staged.")
          ELSE Proceed([State EXCEPT ![p] = r.repo], "begin_stage",
                       IF tx.i < Len(participants) THEN [tx EXCEPT !.i = @ + 1]
                       ELSE AfterOp(tx, 1))

\* the closure of CommandQueue::execute, one command; the Err arm of run
\* discards the stages
f_step ==
    /\ tx.pc = "f"
    /\ LET op == tx.ops[tx.j]
           r  == perform(State, config, today, op)
       IN IF ~r.ok THEN Return(discard_all(r.ctx), FALSE, r.err)
          ELSE Proceed(r.ctx, op.action, AfterOp(tx, tx.j + 1))

\* Transaction::validate_associations
validate_step ==
    /\ tx.pc = "validate"
    /\ LET v == validate_associations(State)
       IN IF ~v.ok THEN Return(State, FALSE, v.err)
          ELSE Proceed(State, "validate_associations", [tx EXCEPT !.pc = "prepare", !.i = 1])

\* a prepare_all that applies each snapshot as soon as it is prepared
prepare_all_step_applying ==
    /\ tx.pc = "prepare"
    /\ LET p == participants[tx.i]
           r == prepare_commit(State[p])
       IN IF ~r.ok THEN Return(State, FALSE, "Entity with id already exists.")
          ELSE Proceed([State EXCEPT ![p] = apply_prepared(@, r)], "prepare_commit",
                       IF tx.i < Len(participants)
                       THEN [tx EXCEPT !.i = @ + 1, !.prepared = Append(@, r)]
                       ELSE [tx EXCEPT !.pc = "apply", !.i = 1, !.prepared = Append(@, r)])

\* Transaction::prepare_all, one participant: the snapshot is kept by the
\* participant, the repository is only read
prepare_all_step ==
    /\ tx.pc = "prepare"
    /\ LET p == participants[tx.i]
           r == prepare_commit(State[p])
       IN IF ~r.ok THEN Return(State, FALSE, "Entity with id already exists.")
          ELSE Proceed(State, "prepare_commit",
                       IF tx.i < Len(participants)
                       THEN [tx EXCEPT !.i = @ + 1, !.prepared = Append(@, r)]
                       ELSE [tx EXCEPT !.pc = "apply", !.i = 1, !.prepared = Append(@, r)])

\* Transaction::apply_all, one participant; after the last, run returns Ok
apply_all_step ==
    /\ tx.pc = "apply"
    /\ LET p == participants[tx.i]
           ctx == [State EXCEPT ![p] = apply_prepared(@, tx.prepared[tx.i])]
       IN IF tx.i < Len(participants)
          THEN Proceed(ctx, "apply_prepared", [tx EXCEPT !.i = @ + 1])
          ELSE Return(ctx, TRUE, "")

\* the card lists a stage is filled with
StagedInserts ==
    {<<>>, <<Card_new("c", "RED")>>, <<Card_new("c", "RED"), Card_new("d", "BLUE")>>}

RECURSIVE insert_all(_, _, _)
\* Repository::insert for each entity of es, from index i
insert_all(repo, es, i) ==
    IF i > Len(es) THEN repo ELSE insert_all(insert(repo, es[i]), es, i + 1)

\* begin_stage(clear_existing), the inserts, discard_stage, on the cards
StageDiscard(clear_existing, es) ==
    /\ Idle
    /\ LET b == begin_stage(cards, clear_existing)
       IN IF ~b.ok THEN Step("stage-discard", Err("Transaction already in progress.", State))
          ELSE Step("stage-discard",
                    Ok([State EXCEPT !.cards = discard_stage(insert_all(b.repo, es, 1))]))

RunNext ==
    \/ Idle /\ \E e \in Entities : \E a \in TxArgsOf(e) : CanAdd(e, SessionCap(e)) /\ Add(e, a)
    \/ Idle /\ \E id \in 1..MaxId : \E a \in TxArgsOf("task") : Modify("task", id, a)
    \/ Idle /\ \E e \in Entities : \E id \in 1..MaxId : Delete(e, id)
    \/ \E clear_existing \in BOOLEAN : \E ops \in RunQueues :
          /\ CanAdd("card", MaxId)
          /\ CanAdd("task", MaxId)
          /\ CanAdd("event", MaxEvents)
          /\ run_enter(clear_existing, ops)
    \/ begin_all_step
    \/ f_step
    \/ validate_step
    \/ prepare_all_step
    \/ apply_all_step
    \/ \E clear_existing \in BOOLEAN : \E es \in StagedInserts :
          CanAdd("card", MaxId) /\ StageDiscard(clear_existing, es)

RunSpec == Init /\ [][RunNext]_vars

(***************************************************************************)
(* The pattern specification: EntitySpec::match_pattern                    *)
(* (command/entity_spec/core.rs) on argument lists.  An argument is        *)
(* [kind, v]; a slot is [kind, validator, optional], the validator named   *)
(* by the function that builds it ("" for none).                           *)
(***************************************************************************)
\* TaskArgSchema::pattern_base
TaskArgSchema_pattern_base ==
    <<[kind |-> "name", validator |-> "", optional |-> FALSE],
      [kind |-> "int", validator |-> "hours_slot", optional |-> FALSE],
      [kind |-> "card", validator |-> "card_id_validator", optional |-> TRUE],
      [kind |-> "at", validator |-> "", optional |-> FALSE],
      [kind |-> "date", validator |-> "task_start_date_validator", optional |-> FALSE]>>

\* CardArgSchema::pattern_base
CardArgSchema_pattern_base ==
    <<[kind |-> "name", validator |-> "", optional |-> FALSE],
      [kind |-> "color", validator |-> "", optional |-> FALSE]>>

\* pattern_entity_id: entity_slot(expected), id_slot()
pattern_entity_id(expected) ==
    <<[kind |-> "entity", validator |-> "entity_slot:" \o expected, optional |-> FALSE],
      [kind |-> "int", validator |-> "id_slot", optional |-> FALSE]>>

pattern_base(entity) ==
    CASE entity = "task" -> TaskArgSchema_pattern_base
      [] entity = "event" -> EventArgSchema_pattern_base
      [] entity = "card" -> CardArgSchema_pattern_base

PatternIds == Entities \X {"Base", "EntityFirst", "EntityId"}

\* PatternIdExt::pattern
pattern(pid) ==
    CASE pid[2] = "Base" -> pattern_base(pid[1])
      [] pid[2] = "EntityId" -> pattern_entity_id(pid[1])
      [] pid[2] = "EntityFirst" -> pattern_entity_id(pid[1]) \o pattern_base(pid[1])

\* ArgMatcher::expected_error of the slot's kind
expected_error(kind) ==
    CASE kind = "name" -> "Expected a quoted name"
      [] kind = "int" -> "Expected an integer"
      [] kind = "bool" -> "Expected a boolean"
      [] kind = "color" -> "Expected a card color"
      [] kind = "card" -> "Expected a card color id in the format '+C<integer>'"
      [] kind = "at" -> "Expected an @ symbol"
      [] kind = "days" -> "Expected a comma separated list of days in the week"
      [] kind = "range" -> "Expected a time range in the format <start>-<end>"
      [] kind = "date" -> "Expected a valid date"
      [] kind = "entity" -> "Expected an entity type"

\* the validator of a slot on an argument of the slot's kind: "" for Ok
validator_error(slot, arg, ctx, cfg) ==
    CASE slot.validator = "" -> ""
      [] slot.validator = "hours_slot" ->
           IF hours_slot(arg.v) THEN "" ELSE "Hours must be greater than 0."
      [] slot.validator = "id_slot" ->
           IF id_slot(arg.v) THEN "" ELSE "ID must be greater than 0."
      [] slot.validator = "card_id_validator" ->
           IF card_id_validator(ctx, arg.v) THEN "" ELSE "Card id does not exist."
      [] slot.validator = "task_start_date_validator" ->
           IF task_start_date_validator(cfg, arg.v) THEN ""
           ELSE "Task due date cannot be before schedule start date."
      [] slot.validator = "daily_hour_range_validator" ->
           IF daily_hour_range_validator(cfg, arg.v) THEN ""
           ELSE "Event falls outside of daily hours range from config"
      [] OTHER ->
           IF slot.validator = "entity_slot:" \o arg.v THEN "" ELSE "Wrong entity type"

\* ArgSlot::classify
classify(slot, arg, ctx, cfg) ==
    IF arg.kind # slot.kind
    THEN [m |-> "KindMismatch", e |-> expected_error(slot.kind)]
    ELSE LET e == validator_error(slot, arg, ctx, cfg)
         IN IF e = "" THEN [m |-> "Match", e |-> ""]
            ELSE [m |-> "ValidatorFail", e |-> e]

MatchOk == [ok |-> TRUE, position |-> 0, err |-> ""]
ArgMatchFailure(position, msg) == [ok |-> FALSE, position |-> position, err |-> msg]

RECURSIVE match_skipping_from(_, _, _, _, _, _)
\* a match_pattern that skips an optional slot whose validator fails
match_skipping_from(ctx, cfg, slots, args, s, a) ==
    IF s > Len(slots)
    THEN IF a <= Len(args)
         THEN ArgMatchFailure(IF Len(slots) = 0 THEN 0 ELSE Len(slots) - 1,
                              "Too many arguments provided.")
         ELSE MatchOk
    ELSE IF a > Len(args)
         THEN IF slots[s].optional THEN match_skipping_from(ctx, cfg, slots, args, s + 1, a)
              ELSE ArgMatchFailure(s - 1, "Missing argument(s).")
    ELSE LET c == classify(slots[s], args[a], ctx, cfg)
         IN IF c.m = "Match" THEN match_skipping_from(ctx, cfg, slots, args, s + 1, a + 1)
            ELSE IF slots[s].optional
                 THEN match_skipping_from(ctx, cfg, slots, args, s + 1, a)
            ELSE ArgMatchFailure(s - 1, c.e)

match_pattern_skipping(ctx, cfg, args, pid) ==
    match_skipping_from(ctx, cfg, pattern(pid), args, 1, 1)

RECURSIVE match_from(_, _, _, _, _, _)
\* the loop of match_pattern from slot s (slot_idx = s - 1) with the argument
\* iterator at a, and the check for arguments left over after the last slot
match_from(ctx, cfg, slots, args, s, a) ==
    IF s > Len(slots)
    THEN IF a <= Len(args)
         THEN ArgMatchFailure(IF Len(slots) = 0 THEN 0 ELSE Len(slots) - 1,
                              "Too many arguments provided.")
         ELSE MatchOk
    ELSE IF a > Len(args)
         THEN IF slots[s].optional THEN match_from(ctx, cfg, slots, args, s + 1, a)
              ELSE ArgMatchFailure(s - 1, "Missing argument(s).")
    ELSE LET c == classify(slots[s], args[a], ctx, cfg)
         IN CASE c.m = "Match" -> match_from(ctx, cfg, slots, args, s + 1, a + 1)
              [] c.m = "KindMismatch" ->
                   IF slots[s].optional THEN match_from(ctx, cfg, slots, args, s + 1, a)
                   ELSE ArgMatchFailure(s - 1, c.e)
              [] c.m = "ValidatorFail" -> ArgMatchFailure(s - 1, c.e)

\* EntitySpec::match_pattern
match_pattern(ctx, cfg, args, pid) == match_from(ctx, cfg, pattern(pid), args, 1, 1)

\* the arguments the lists are made of
ArgTable ==
    <<[kind |-> "name", v |-> "t"],
      [kind |-> "int", v |-> 0],
      [kind |-> "int", v |-> 1],
      [kind |-> "card", v |-> 1],
      [kind |-> "at", v |-> "@"],
      [kind |-> "date", v |-> Today + 1],
      [kind |-> "bool", v |-> TRUE],
      [kind |-> "days", v |-> <<0>>],
      [kind |-> "range", v |-> [start |-> Hour(DayStartHour - 1), end |-> Hour(DayStartHour)]],
      [kind |-> "range", v |-> [start |-> Hour(DayStartHour), end |-> Hour(DayStartHour + 1)]],
      [kind |-> "color", v |-> "RED"],
      [kind |-> "entity", v |-> "task"],
      [kind |-> "entity", v |-> "card"]>>

ArgKinds == {"name", "int", "card", "at", "date", "bool", "days", "range", "color", "entity"}

\* the places in ArgTable of the arguments of a kind
ArgsOfKind(kind) == {i \in 1..Len(ArgTable) : ArgTable[i].kind = kind}

MaxShort == 2

\* every list of at most MaxShort arguments, as places in ArgTable
ShortLists == UNION {[1..n -> 1..Len(ArgTable)] : n \in 0..MaxShort}

RECURSIVE ListsAlong(_, _)
\* the lists that give each slot from index i an argument of its kind, or none
ListsAlong(slots, i) ==
    IF i > Len(slots) THEN {<<>>}
    ELSE LET rest == ListsAlong(slots, i + 1)
         IN rest \cup {<<x>> \o r : x \in ArgsOfKind(slots[i].kind), r \in rest}

\* the lists match_pattern is given for a pattern, as places in ArgTable: the
\* short lists, and the lists along the pattern, as they are or followed by
\* one more argument
MatchLists(pid) ==
    LET along == ListsAlong(pattern(pid), 1)
    IN ShortLists \cup along
         \cup {l \o <<x>> : l \in along, x \in ArgsOfKind("at") \cup ArgsOfKind("name")}

\* the arguments at the places l
ArgsAt(l) == [i \in 1..Len(l) |-> ArgTable[l[i]]]

\* EntitySpec::assert_matches_pattern calls match_pattern on one pattern.
\* match_pattern changes nothing, so a match that follows a match reaches
\* only states that one match reaches: it is taken after the other steps.
Match(pid, args) ==
    LET r == match_pattern(State, config, args, pid)
    IN /\ last.cmd # "match"
       /\ last' = [cmd |-> "match", ok |-> r.ok, err |-> r.err, pid |-> pid, args |-> args]
       /\ UNCHANGED <<cards, events, tasks, config, today, tx, sm>>

PatternNext ==
    \/ CanAdd("card", 1) /\ Add("card", [name |-> "c", color |-> "RED"])
    \/ Delete("card", 1)
    \/ \E d \in PersistStartDates : ConfigEdit("schedule_start_date", d)
    \/ \E pid \in PatternIds : \E l \in MatchLists(pid) : Match(pid, ArgsAt(l))

PatternSpec == Init /\ [][PatternNext]_vars

(***************************************************************************)
(* The load specification: entities are added and deleted, and save files  *)
(* are read, among them files in which an event or a task names a card the *)
(* file's cards list does not hold.                                        *)
(***************************************************************************)
\* no cards and an event on +C1; no cards and a task on +C1; one card and an
\* event on +C2; one card, an event and a task on it
LoadFiles ==
    {[exists |-> TRUE, cards |-> <<>>, events |-> <<EventOn(1)>>, tasks |-> <<>>],
     [exists |-> TRUE, cards |-> <<>>, events |-> <<>>, tasks |-> <<TaskOn(1, 2)>>],
     [exists |-> TRUE, cards |-> <<[name |-> "c", color |-> "RED"]>>,
      events |-> <<EventOn(2)>>, tasks |-> <<>>],
     [exists |-> TRUE, cards |-> <<[name |-> "c", color |-> "RED"]>>,
      events |-> <<EventOn(1)>>, tasks |-> <<TaskOn(1, 2)>>]}

LoadNext ==
    \/ \E e \in Entities : \E a \in TxArgsOf(e) : CanAdd(e, SessionCap(e)) /\ Add(e, a)
    \/ \E e \in Entities : \E id \in 1..MaxId : Delete(e, id)
    \/ \E f \in LoadFiles : Read(f)

LoadSpec == Init /\ [][LoadNext]_vars

(***************************************************************************)
(* The packing specification: compute_schedule taken one step at a time.   *)
(* Tasks and events are added while no schedule is computed; a schedule    *)
(* run resets the tasks, then for each planning day builds the free list   *)
(* and the sorted candidates, and packs the candidates one after the       *)
(* other, one iteration of the pack loop at a time.                        *)
(***************************************************************************)
Resting == sm.pc = "idle"

\* the planning days of the run
PlanDays == CalendarView_days(start_date(config, today), days_to_plan)

\* compute_schedule begins: reset_tasks
schedule_enter ==
    /\ Resting
    /\ tasks' = [tasks EXCEPT !.items = reset_tasks(@)]
    /\ sm' = [NoSchedule EXCEPT !.pc = "day", !.i = 1]
    /\ last' = [cmd |-> "reset_tasks", ok |-> TRUE, err |-> ""]
    /\ UNCHANGED <<cards, events, config, today, tx>>

\* the head of the loop over the planning days: the free list and the sorted
\* candidates of the day; after the last day compute_schedule returns Ok(())
day_step ==
    /\ sm.pc = "day"
    /\ IF sm.i > Len(PlanDays)
       THEN /\ sm' = NoSchedule
            /\ last' = [cmd |-> "schedule", ok |-> TRUE, err |-> ""]
       ELSE /\ sm' = [sm EXCEPT !.pc = "task",
                                !.free = free_blocks_for_date(State, PlanDays[sm.i], config.range),
                                !.ids = sorted_ids(tasks.items, PlanDays[sm.i], config.order),
                                !.picked = <<>>]
            /\ last' = [cmd |-> "free_blocks_for_date", ok |-> TRUE, err |-> ""]
    /\ UNCHANGED <<cards, events, tasks, config, today, tx>>

\* for_each_mut picks the next candidate and calls pack, or the day ends
task_step ==
    /\ sm.pc = "task"
    /\ IF sm.ids = <<>>
       THEN sm' = [sm EXCEPT !.pc = "day", !.i = @ + 1]
       ELSE sm' = [sm EXCEPT !.pc = "pack",
                             !.start_remaining = tasks.items[Head(sm.ids)].remaining_hours,
                             !.start_free = sm.free,
                             !.iters = 0]
    /\ last' = [cmd |-> "for_each_mut", ok |-> TRUE, err |-> ""]
    /\ UNCHANGED <<cards, events, tasks, config, today, tx>>

\* pack returns: the outcome is computed, the closure applies the overflow
\* policy (dropping its result) and for_each_mut moves on
pack_return(task, free) ==
    LET outcome == IF task.remaining_hours = sm.start_remaining THEN "None"
                   ELSE IF task.remaining_hours > 0 THEN "Partial"
                   ELSE "Full"
        handled == IF outcome = "None" THEN task
                   ELSE make_overflow_handler(config.policy, task, TRUE).task
    IN /\ tasks' = [tasks EXCEPT !.items[task.id] = handled]
       /\ sm' = [sm EXCEPT !.pc = "task", !.ids = Tail(@), !.picked = Append(@, task.id),
                           !.free = free, !.outcome = outcome]
       /\ last' = [cmd |-> "pack", ok |-> TRUE, err |-> ""]
       /\ UNCHANGED <<cards, events, config, today, tx>>

\* a pack iteration that puts the block back and leaves the task as it was
pack_continue_block_back(task, free) ==
    /\ last' = [cmd |-> "place_one_block", ok |-> TRUE, err |-> ""]
    /\ UNCHANGED <<cards, events, tasks, config, today, tx, sm>>

\* pack goes on with its loop
pack_continue(task, free) ==
    /\ tasks' = [tasks EXCEPT !.items[task.id] = task]
    /\ sm' = [sm EXCEPT !.free = free, !.iters = @ + 1]
    /\ last' = [cmd |-> "place_one_block", ok |-> TRUE, err |-> ""]
    /\ UNCHANGED <<cards, events, config, today, tx>>

\* BlockPacker::pack, one step: the early return, or the test of the while
\* loop and one iteration
pack_step ==
    /\ sm.pc = "pack"
    /\ LET task == tasks.items[Head(sm.ids)]
           date == PlanDays[sm.i]
       IN IF sm.iters = 0 /\ (task.remaining_hours <= 0 \/ sm.free = <<>>)
          THEN pack_return(task, sm.free)
          ELSE IF ~(task.remaining_hours > 0) THEN pack_return(task, sm.free)
          ELSE LET idx == select_block_idx(sm.free)
               IN IF idx = 0 THEN pack_return(task, sm.free)
                  ELSE LET step == place_one_block(task, date, sm.free[idx])
                           rest == RemoveAt(sm.free, idx)
                       IN IF step.finished
                          THEN pack_return(step.task, InsertAt(rest, idx, step.leftover))
                          ELSE pack_continue(step.task, rest)

PackNext ==
    \/ Resting /\ \E a \in SchedTaskArgs : CanAdd("task", MaxTasks) /\ Add("task", a)
    \/ Resting /\ \E a \in SchedEventArgs : CanAdd("event", MaxSchedEvents) /\ Add("event", a)
    \/ schedule_enter
    \/ day_step
    \/ task_step
    \/ pack_step

PackSpec == SchedInit /\ [][PackNext]_vars

\* The termination specification: the same steps over fewer tasks, so that
\* the runs can be followed to their end.  compute_schedule is a sequential
\* function whose caller waits for it: once it has begun, its next step is
\* taken as long as there is one, which is weak fairness of the run's steps.
MaxTermTasks == 2

TermConfigs ==
    {SchedConfig("longest-task-first", p, NoDate) : p \in {"allow", "block"}}

TermTaskArgs ==
    {[name |-> "t", hours |-> 2, card |-> NoCard, date |-> Today],
     [name |-> "t", hours |-> LongTaskHours, card |-> NoCard, date |-> Today + DaysPerWeek]}

TermInit == InitWith(TermConfigs)

TermNext ==
    \/ Resting /\ \E a \in TermTaskArgs : CanAdd("task", MaxTermTasks) /\ Add("task", a)
    \/ Resting /\ \E a \in SchedEventArgs : CanAdd("event", MaxSchedEvents) /\ Add("event", a)
    \/ schedule_enter
    \/ day_step
    \/ task_step
    \/ pack_step

TermSpec == TermInit /\ [][TermNext]_vars

PackLive == TermSpec /\ WF_vars(day_step \/ task_step \/ pack_step)

(***************************************************************************)
(* The command-line specification: mod and del are given with the argument *)
(* that follows the entity word as the argument parser produced it, an     *)
(* integer or an argument of another kind.  A panic ends the process: no   *)
(* further line is read.                                                   *)
(***************************************************************************)
Panicked == "internal error: entered unreachable code"

\* the process is reading command lines
Running == last.err # Panicked

\* arg_extractor.rs extract_at::<IntArg>: the value of an Int argument; any
\* other argument reaches unreachable!()
extract_at(arg) ==
    IF arg.kind = "int" THEN [ok |-> TRUE, value |-> arg.value]
    ELSE [ok |-> FALSE, value |-> 0]

\* EntityCommand::handle_modify on the parsed line: the id is extracted from
\* the second argument before the pattern is matched
handle_modify_line(ctx, cfg, now, entity, second, args) ==
    LET id == extract_at(second)
    IN IF ~id.ok THEN Err(Panicked, ctx)
       ELSE handle_modify(ctx, cfg, now, entity, id.value, args)

\* EntityCommand::handle_delete on the parsed line: can_delete matches the
\* pattern <entity> <id> first, the id is extracted only after it matched
handle_delete_line(ctx, entity, second) ==
    IF second.kind # "int" THEN Err("Expected an integer.", ctx)
    ELSE handle_delete(ctx, entity, extract_at(second).value)

\* the arguments that may follow the entity word: an integer, a quoted name
SecondArgs ==
    {[kind |-> "int", value |-> v] : v \in 0..MaxId} \cup {[kind |-> "name", value |-> 0]}

\* mod <entity> <second> <args>
ModifyLine(entity, second, args) ==
    LET r == handle_modify_line(State, config, today, entity, second, args)
    IN Step("mod", r)

\* del <entity> <second>
DeleteLine(entity, second) ==
    LET r == handle_delete_line(State, entity, second)
    IN Step("del", r)

LineNext ==
    \/ Running /\ \E e \in Entities : \E a \in ArgsOf(e) :
                     CanAdd(e, SessionCap(e)) /\ Add(e, a)
    \/ Running /\ \E e \in Entities : \E second \in SecondArgs : \E a \in ArgsOf(e) :
                     ModifyLine(e, second, a)
    \/ Running /\ \E e \in Entities : \E second \in SecondArgs : DeleteLine(e, second)

LineSpec == Init /\ [][LineNext]_vars

(***************************************************************************)
(* Properties of the transaction and of the repositories.                  *)
(***************************************************************************)
Repos == {"cards", "events", "tasks"}

\* the last command went through Transaction::run
RunReturned == last.cmd \in {"read", "execute"} /\ last.err # "No such file."

\* C1: whenever Transaction::run returns an error, the items map and the
\* next_id of the cards, events and tasks repositories equal their values
\* immediately before run was called.
C1_RunErrorRestoresRepositories ==
    [][(RunReturned' /\ ~last'.ok)
         => \A r \in Repos : /\ State'[r].items = State[r].items
                             /\ State'[r].next_id = State[r].next_id]_vars

\* a read has failed and left a stored card above the next id of its repository
C1_FailedReadResetsNextId ==
    /\ last.cmd = "read" /\ ~last.ok
    /\ 1 \in DOMAIN cards.items
    /\ cards.next_id = 1

\* C2: after every command of a session, in each repository all stored ids
\* are positive and pairwise distinct and next_id is strictly greater than
\* every stored id.
C2_IdsPositiveDistinctBelowNextId ==
    \A r \in Repos : \A id \in DOMAIN State[r].items :
        /\ id > 0
        /\ State[r].items[id].id = id
        /\ id < State[r].next_id

\* a task added after a failed read has replaced the task stored under id 1
C2_InsertLandsOnStoredId ==
    /\ last.cmd = "read" /\ ~last.ok
    /\ 1 \in DOMAIN tasks.items
    /\ tasks.next_id = 1

\* C3: when Transaction::run returns, with success or with any error, none of
\* the three repositories is left in staged mode.
C3_RunLeavesNoStage ==
    RunReturned => \A r \in Repos : ~State[r].staged.active

\* a queue has failed the cross-entity validation and every stage is still open
C3_StageLeftOpen ==
    /\ last.cmd = "execute"
    /\ last.err = "Referenced id not present in transaction."
    /\ \A r \in Repos : State[r].staged.active

(***************************************************************************)
(* Properties of the tasks' hours.                                         *)
(***************************************************************************)
RECURSIVE SubtaskSeconds(_)
\* the sum of the durations of a list of subtasks
SubtaskSeconds(sts) ==
    IF sts = <<>> THEN 0 ELSE SubTask_hours(Head(sts)) + SubtaskSeconds(Tail(sts))

\* C4: after every command, every task has 0 <= remaining_hours <= hours, and
\* hours equals remaining_hours plus the sum of the durations of its subtasks.
C4_HoursAccounting ==
    \A id \in DOMAIN tasks.items :
        LET t == tasks.items[id]
        IN /\ 0 <= t.remaining_hours
           /\ t.remaining_hours <= t.hours
           /\ t.hours = t.remaining_hours + SubtaskSeconds(t.subtasks)

\* a schedule has split a task over two days and left part of it unplaced
C4_SplitAndPartlyPlaced ==
    /\ last.cmd = "schedule"
    /\ \E id \in DOMAIN tasks.items :
          /\ Len(tasks.items[id].subtasks) >= 2
          /\ 0 < tasks.items[id].remaining_hours
          /\ tasks.items[id].remaining_hours < tasks.items[id].hours

(***************************************************************************)
(* Properties of a schedule run.                                           *)
(***************************************************************************)
AfterSchedule == last.cmd = "schedule"

\* the subtasks of the stored tasks, as <<task id, index>>
SubtaskKeys ==
    UNION {{<<id, i>> : i \in 1..Len(tasks.items[id].subtasks)} : id \in DOMAIN tasks.items}

SubtaskAt(k) == tasks.items[k[1]].subtasks[k[2]]

Overlaps(a, b) == a.start < b.end /\ b.start < a.end

ActiveOn(e, d) == \E i \in 1..Len(e.days) : e.days[i] = d % DaysPerWeek

\* C5: after a schedule run, every subtask lies inside the configured daily
\* window, overlaps no event active on its date's weekday, and overlaps no
\* other subtask placed on the same date.
C5_SubtasksInFreeTime ==
    AfterSchedule =>
        \A k \in SubtaskKeys :
            LET s == SubtaskAt(k)
            IN /\ config.range.start <= s.time_range.start
               /\ s.time_range.start < s.time_range.end
               /\ s.time_range.end <= config.range.end
               /\ \A e \in DOMAIN events.items :
                     ActiveOn(events.items[e], s.date)
                        => ~Overlaps(s.time_range, events.items[e].time_range)
               /\ \A k2 \in SubtaskKeys \ {k} :
                     SubtaskAt(k2).date = s.date
                        => ~Overlaps(s.time_range, SubtaskAt(k2).time_range)

\* a schedule has placed two subtasks on a date on which an event is active
C5_TwoSubtasksBesideAnEvent ==
    /\ AfterSchedule
    /\ \E k \in SubtaskKeys : \E k2 \in SubtaskKeys \ {k} :
          /\ SubtaskAt(k).date = SubtaskAt(k2).date
          /\ \E e \in DOMAIN events.items : ActiveOn(events.items[e], SubtaskAt(k).date)

\* C6: after a schedule run, every subtask's date lies in the 7-day planning
\* window and is not later than its task's due date; a task due before the
\* start date has no subtask and remaining_hours = hours.
C6_SubtasksInPlanningWindow ==
    AfterSchedule =>
        LET first == start_date(config, today)
        IN \A id \in DOMAIN tasks.items :
              LET t == tasks.items[id]
              IN /\ \A i \in 1..Len(t.subtasks) :
                       /\ first <= t.subtasks[i].date
                       /\ t.subtasks[i].date <= first + (DaysPerWeek - 1)
                       /\ t.subtasks[i].date <= t.date
                 /\ t.date < first => (t.subtasks = <<>> /\ t.remaining_hours = t.hours)

\* a schedule has placed a subtask on the last day of the window, for a task
\* due later, while another task was due before the first day
C6_LastDayUsedAndPastDueSkipped ==
    /\ AfterSchedule
    /\ \E k \in SubtaskKeys :
          /\ SubtaskAt(k).date = start_date(config, today) + (DaysPerWeek - 1)
          /\ tasks.items[k[1]].date > SubtaskAt(k).date
          /\ tasks.items[k[1]].remaining_hours > 0
    /\ \E id \in DOMAIN tasks.items : tasks.items[id].date < start_date(config, today)

\* C7: under the block policy compute_schedule returns success only if every
\* task that was a candidate on some planning day ends with remaining_hours = 0
\* (it returns an error when a task's hours exceed the free hours before its
\* due date).
C7_BlockPolicyReportsOverflow ==
    (AfterSchedule /\ config.policy = "block" /\ last.ok) =>
        \A id \in DOMAIN tasks.items :
            tasks.items[id].date >= start_date(config, today)
               => tasks.items[id].remaining_hours = 0

\* under the block policy a schedule has returned success with a task partly placed
C7_BlockedOverflowReturnsOk ==
    /\ AfterSchedule /\ config.policy = "block" /\ last.ok
    /\ \E id \in DOMAIN tasks.items :
          /\ tasks.items[id].subtasks # <<>>
          /\ tasks.items[id].remaining_hours > 0

\* the candidates of the first planning day are listed so that `before` holds
\* from every task of the list to every later one
FirstDayOrder(before(_, _)) ==
    LET ids == sorted_ids(tasks.items, start_date(config, today), config.order)
    IN \A i \in 1..Len(ids) : \A j \in (i + 1)..Len(ids) :
          before(tasks.items[ids[i]], tasks.items[ids[j]])

\* on the first planning day, where every task starts with remaining_hours =
\* hours, task a is packed ahead of task b: no subtask of b on that day starts
\* before a has one
PackedAhead(a, b) ==
    \A j \in 1..Len(b.subtasks) :
        b.subtasks[j].date = start_date(config, today)
           => \E i \in 1..Len(a.subtasks) :
                 /\ a.subtasks[i].date = start_date(config, today)
                 /\ a.subtasks[i].time_range.start < b.subtasks[j].time_range.start

\* due date ascending, then longer remaining_hours, then smaller id
LongerFirst(a, b) ==
    \/ a.date < b.date
    \/ a.date = b.date /\ a.remaining_hours > b.remaining_hours
    \/ a.date = b.date /\ a.remaining_hours = b.remaining_hours /\ a.id < b.id

\* due date ascending, then shorter remaining_hours, then smaller id
ShorterFirst(a, b) ==
    \/ a.date < b.date
    \/ a.date = b.date /\ a.remaining_hours < b.remaining_hours
    \/ a.date = b.date /\ a.remaining_hours = b.remaining_hours /\ a.id < b.id

\* two stored tasks that are candidates of the first planning day, a before b
\* in the order `before` when both start the run with remaining_hours = hours
FirstDayPair(a, b, before(_, _)) ==
    /\ a \in DOMAIN tasks.items /\ b \in DOMAIN tasks.items /\ a # b
    /\ tasks.items[a].date >= start_date(config, today)
    /\ tasks.items[b].date >= start_date(config, today)
    /\ before([tasks.items[a] EXCEPT !.remaining_hours = tasks.items[a].hours],
              [tasks.items[b] EXCEPT !.remaining_hours = tasks.items[b].hours])

\* C8: under longest-task-first the candidates of a day are packed by due date
\* ascending, then longer remaining_hours first, then smaller id; so of two
\* tasks due the same day the longer receives the earliest free time of the
\* day and the shorter the time after it.
C8_LongestTaskFirstOrder ==
    config.order = "longest-task-first" =>
        /\ FirstDayOrder(LongerFirst)
        /\ AfterSchedule =>
              \A a \in 1..MaxTasks : \A b \in 1..MaxTasks :
                  FirstDayPair(a, b, LongerFirst)
                     => PackedAhead(tasks.items[a], tasks.items[b])

\* under longest-task-first, of two tasks due the same day the shorter has been
\* given the earlier time
C8_ShorterTaskPlacedEarlier ==
    /\ AfterSchedule /\ config.order = "longest-task-first"
    /\ \E a \in DOMAIN tasks.items : \E b \in DOMAIN tasks.items :
          /\ tasks.items[a].date = tasks.items[b].date
          /\ tasks.items[a].hours > tasks.items[b].hours
          /\ tasks.items[a].subtasks # <<>> /\ tasks.items[b].subtasks # <<>>
          /\ tasks.items[b].subtasks[1].date = tasks.items[a].subtasks[1].date
          /\ tasks.items[b].subtasks[1].time_range.start
                < tasks.items[a].subtasks[1].time_range.start

\* C9: under shortest-task-first the candidates of a day are packed by due
\* date ascending, then shorter remaining_hours first, then smaller id.
C9_ShortestTaskFirstOrder ==
    config.order = "shortest-task-first" =>
        /\ FirstDayOrder(ShorterFirst)
        /\ AfterSchedule =>
              \A a \in 1..MaxTasks : \A b \in 1..MaxTasks :
                  FirstDayPair(a, b, ShorterFirst)
                     => PackedAhead(tasks.items[a], tasks.items[b])

\* under shortest-task-first, of two tasks due the same day the longer has been
\* given the earlier time
C9_LongerTaskPlacedEarlier ==
    /\ AfterSchedule /\ config.order = "shortest-task-first"
    /\ \E a \in DOMAIN tasks.items : \E b \in DOMAIN tasks.items :
          /\ tasks.items[a].date = tasks.items[b].date
          /\ tasks.items[a].hours < tasks.items[b].hours
          /\ tasks.items[a].subtasks # <<>> /\ tasks.items[b].subtasks # <<>>
          /\ tasks.items[b].subtasks[1].date = tasks.items[a].subtasks[1].date
          /\ tasks.items[b].subtasks[1].time_range.start
                < tasks.items[a].subtasks[1].time_range.start

\* C10: after a schedule run under the allow policy, a subtask has overflow =
\* true only if it is the last subtask of a task that ends the run with
\* remaining_hours > 0 (so a task has at most one flagged subtask, and a fully
\* scheduled task has none).
C10_OverflowOnlyOnLastOfUnfinished ==
    (AfterSchedule /\ config.policy = "allow") =>
        \A k \in SubtaskKeys :
            SubtaskAt(k).overflow
               => /\ k[2] = Len(tasks.items[k[1]].subtasks)
                  /\ tasks.items[k[1]].remaining_hours > 0

\* under the allow policy a schedule has left a task with two flagged subtasks
C10_TwoFlaggedSubtasks ==
    /\ AfterSchedule /\ config.policy = "allow"
    /\ \E k \in SubtaskKeys : \E k2 \in SubtaskKeys \ {k} :
          /\ k[1] = k2[1]
          /\ SubtaskAt(k).overflow /\ SubtaskAt(k2).overflow

(***************************************************************************)
(* Properties of the planning window's first day.                          *)
(***************************************************************************)
\* C11: the first planning day of compute_schedule is max(schedule_start_date,
\* today) when the option is set and today when it is unset; no subtask is
\* placed on a date before today.
C11_PlanStartsNoEarlierThanToday ==
    AfterSchedule =>
        /\ CalendarView_days(start_date(config, today), days_to_plan)[1]
              = IF config.schedule_start_date # NoDate
                THEN Max2(config.schedule_start_date, today)
                ELSE today
        /\ \A k \in SubtaskKeys : SubtaskAt(k).date >= today

\* with a start date before today, a schedule has placed a subtask on a date
\* before today
C11_SubtaskBeforeToday ==
    /\ AfterSchedule
    /\ config.schedule_start_date # NoDate
    /\ config.schedule_start_date < today
    /\ \E k \in SubtaskKeys : SubtaskAt(k).date < today

(***************************************************************************)
(* Properties of save and load.                                            *)
(***************************************************************************)
\* every card_id of a stored task or event is the id of a stored card
AllRefsResolve(ctx) ==
    \A r \in {"events", "tasks"} : \A id \in DOMAIN ctx[r].items :
        ctx[r].items[id].card_id # NoCard => ctx[r].items[id].card_id \in DOMAIN ctx.cards.items

\* the k-th entity of repository r before the save and the entity loaded from
\* its line name the same card: none, or cards of equal name and color
SameCard(r, k) ==
    LET old == State[r].items[AscendingSeq(DOMAIN State[r].items)[k]]
        new == State'[r].items[k]
    IN IF old.card_id = NoCard THEN new.card_id = NoCard
       ELSE /\ new.card_id \in DOMAIN cards'.items
            /\ cards'.items[new.card_id].name = cards.items[old.card_id].name
            /\ cards'.items[new.card_id].color = cards.items[old.card_id].color

\* C12: for any state reachable by commands in which every task/event card_id
\* refers to an existing card, save followed by load succeeds, yields the same
\* number of cards, events and tasks, and every task/event card_id resolves to
\* a card with the same name and color as before the save.
C12_SaveThenLoadPreserves ==
    [][(last'.cmd = "save-read" /\ AllRefsResolve(State))
         => /\ last'.ok
            /\ \A r \in Repos : len(State'[r]) = len(State[r])
            /\ \A r \in {"events", "tasks"} : \A k \in 1..len(State[r]) :
                  k \in DOMAIN State'[r].items /\ SameCard(r, k)]_vars

\* a state whose references all resolved has been saved, and reading the file
\* back has failed on the daily hours range
C12_ReloadRejectedByConfig ==
    /\ last.cmd = "save-read" /\ ~last.ok
    /\ last.err = "Event falls outside of daily hours range from config"
    /\ AllRefsResolve(State)
    /\ events.items # <<>>

\* the entity the add command of a saved line builds, under the id k
BuiltFrom(r, args, k) ==
    LET e == CASE r = "cards" -> CardBuilder_create(args)
               [] r = "events" -> EventBuilder_create(args, today)
               [] r = "tasks" -> TaskBuilder_create(args)
    IN [e EXCEPT !.id = k]

\* C13: after a successful load_state of a file whose lines are all valid add
\* commands, each repository holds exactly one entity per line of its section,
\* with ids 1..n in file order and next_id = n + 1, and no entity that existed
\* before the load remains.
C13_LoadHoldsExactlyTheFile ==
    [][(last'.cmd = "save-read" /\ last'.ok)
         => LET f == build_save_file(State).file
            IN \A r \in Repos :
                  /\ DOMAIN State'[r].items = 1..Len(f[r])
                  /\ State'[r].next_id = Len(f[r]) + 1
                  /\ \A k \in 1..Len(f[r]) :
                        State'[r].items[k] = BuiltFrom(r, f[r][k], k)]_vars

\* a file with one card line has been loaded over a repository that held a
\* card under id 2 only, with a task that referred to it
C13_LoadedOverOtherIds ==
    /\ last.cmd = "save-read" /\ last.ok
    /\ DOMAIN cards.items = {1} /\ cards.next_id = 2
    /\ cards.items[1].name = "d"
    /\ \E id \in DOMAIN tasks.items : tasks.items[id].card_id = 1

(***************************************************************************)
(* Properties of the cross-entity validation.                              *)
(***************************************************************************)
\* the ids of the entities of repository r the step has committed: all of them
\* after a read (the stage was opened with clear_existing), the new and the
\* rewritten ones after a queue
CommittedIds(r) ==
    IF last'.cmd = "read" THEN DOMAIN State'[r].items
    ELSE {id \in DOMAIN State'[r].items :
             id \notin DOMAIN State[r].items \/ State[r].items[id] # State'[r].items[id]}

\* C14: a transaction commits only if every card_id of its pending events and
\* tasks is among the staged effective ids of the cards; so after a successful
\* Transaction::run every entity committed by the run has no card_id or the
\* id of a card stored in the cards repository.
C14_CommittedRefsResolve ==
    [][(RunReturned' /\ last'.ok)
         => \A r \in {"events", "tasks"} : \A id \in CommittedIds(r) :
               \/ State'[r].items[id].card_id = NoCard
               \/ State'[r].items[id].card_id \in DOMAIN cards'.items]_vars

\* a queue has committed a task that names a stored card
C14_TaskCommittedOnCard ==
    /\ last.cmd = "execute" /\ last.ok
    /\ \E id \in DOMAIN tasks.items :
          /\ tasks.items[id].card_id # NoCard
          /\ tasks.items[id].card_id \in DOMAIN cards.items
          /\ tasks.items[id].hours = Hour(2)

(***************************************************************************)
(* Properties of the command loop.                                         *)
(***************************************************************************)
\* C15: no command line other than exit terminates the session: every failing
\* command, including mod <entity> followed by something that is not an
\* integer id, is returned as an error value and the loop goes on to accept
\* the next line.
C15_FailingCommandKeepsSession ==
    ~last.ok => Running

\* a mod line whose second argument is not an integer has ended the process
C15_ModPanicked ==
    /\ last.cmd = "mod" /\ ~last.ok
    /\ ~Running

\* C16: an add, mod or del command that returns an error leaves the items and
\* next_id of the three repositories unchanged, and a successful add stores
\* its entity under the next_id the repository had, so an add that follows a
\* rejected one receives the id the rejected one would have had.
C16_FailedEntityCommandChangesNothing ==
    [][/\ (last'.cmd \in {"add", "mod", "del"} /\ ~last'.ok /\ Running')
            => \A r \in Repos : /\ State'[r].items = State[r].items
                                 /\ State'[r].next_id = State[r].next_id
       /\ (last'.cmd = "add" /\ last'.ok)
            => \E r \in Repos :
                  /\ State'[r].next_id = State[r].next_id + 1
                  /\ DOMAIN State'[r].items = DOMAIN State[r].items \cup {State[r].next_id}
                  /\ State'[r].items[State[r].next_id].id = State[r].next_id]_vars

\* a task add was rejected for its hours while a task was stored
C16_AddRejectedAfterStore ==
    /\ last.cmd = "add" /\ ~last.ok /\ last.err = "Hours must be greater than 0."
    /\ 1 \in DOMAIN tasks.items /\ tasks.next_id = 2

\* the entity a successful mod leaves under the id of old, field by field
Modified(entity, old, args, now) ==
    CASE entity = "card" -> [id |-> old.id, name |-> args.name, color |-> args.color]
      [] entity = "event" ->
           [id |-> old.id, recurring |-> args.recurring, name |-> args.name,
            days |-> IF args.days # <<>> THEN args.days
                     ELSE IF args.recurring THEN <<0, 1, 2, 3, 4, 5, 6>>
                     ELSE <<now % DaysPerWeek>>,
            time_range |-> args.time_range, card_id |-> args.card]
      [] entity = "task" ->
           [id |-> old.id, name |-> args.name, hours |-> args.hours * SecondsPerHour,
            date |-> args.date, card_id |-> args.card, subtasks |-> <<>>,
            remaining_hours |-> args.hours * SecondsPerHour]

\* C17: a successful mod <entity> <id> gives the entity stored under <id>
\* exactly the new field values (an omitted card gives card_id = None), keeps
\* its id, leaves the ids stored, next_id and every other entity of every
\* repository unchanged, and for a task empties subtasks and sets
\* remaining_hours to hours.
C17_ModRewritesOneEntity ==
    [][(last'.cmd = "mod" /\ last'.ok) =>
       \A e \in Entities : \A id \in 1..MaxId : \A a \in ArgsOf(e) :
          Modify(e, id, a)
             => LET r == e \o "s"
                IN /\ id \in DOMAIN State[r].items
                   /\ State'[r].items[id] = Modified(e, State[r].items[id], a, today)
                   /\ State'[r].items[id].id = id
                   /\ \A q \in Repos :
                        /\ DOMAIN State'[q].items = DOMAIN State[q].items
                        /\ State'[q].next_id = State[q].next_id
                        /\ \A k \in DOMAIN State[q].items :
                             (q # r \/ k # id) => State'[q].items[k] = State[q].items[k]]_vars

\* a mod has succeeded, leaving a task without subtasks and without a card
\* beside a task that still has the subtasks of the last schedule
C17_TaskModdedAfterSchedule ==
    /\ last.cmd = "mod" /\ last.ok
    /\ \E i, j \in DOMAIN tasks.items :
          /\ tasks.items[i].subtasks = <<>> /\ tasks.items[i].card_id = NoCard
          /\ tasks.items[i].remaining_hours = tasks.items[i].hours
          /\ tasks.items[j].subtasks # <<>>

\* C18: after every successful event add, event mod and load, every stored
\* event has at least one day, and every stored event that is not recurring
\* has exactly one day.
C18_EventDaysWellFormed ==
    (last.ok /\ last.cmd \in {"add", "mod", "save-read"})
        => \A k \in DOMAIN events.items :
              /\ Len(events.items[k].days) >= 1
              /\ ~events.items[k].recurring => Len(events.items[k].days) = 1

\* a successful command has left an event that is not recurring, is on a card
\* and has two days
C18_NonRecurringOnTwoDays ==
    /\ last.ok
    /\ \E k \in DOMAIN events.items :
          /\ ~events.items[k].recurring
          /\ events.items[k].card_id # NoCard
          /\ Len(events.items[k].days) = 2

\* C19: del card <id> succeeds whenever card <id> is stored, whether or not
\* tasks or events refer to it; it removes that card and no other, and every
\* task and event, the ones that refer to the card included, keeps its card_id
\* and all its other fields.
C19_DelCardRemovesOnlyTheCard ==
    [][last'.cmd = "del" =>
       \A id \in 1..MaxId :
          (id \in DOMAIN cards.items /\ Delete("card", id))
             => /\ last'.ok
                /\ DOMAIN cards'.items = DOMAIN cards.items \ {id}
                /\ \A k \in DOMAIN cards'.items : cards'.items[k] = cards.items[k]
                /\ cards'.next_id = cards.next_id
                /\ tasks' = tasks
                /\ events' = events]_vars

\* a del has succeeded and a stored task and a stored event refer to a card
\* that is not stored
C19_TaskOutlivesItsCard ==
    /\ last.cmd = "del" /\ last.ok
    /\ \E k \in DOMAIN tasks.items : \E j \in DOMAIN events.items :
          /\ tasks.items[k].card_id # NoCard
          /\ tasks.items[k].card_id \notin DOMAIN cards.items
          /\ events.items[j].card_id = tasks.items[k].card_id

\* some stored task or event has a card_id that is not the id of a stored card
MissingCard(ctx) ==
    \/ \E k \in DOMAIN ctx.tasks.items :
          ctx.tasks.items[k].card_id # NoCard /\ ctx.tasks.items[k].card_id \notin DOMAIN ctx.cards.items
    \/ \E k \in DOMAIN ctx.events.items :
          ctx.events.items[k].card_id # NoCard /\ ctx.events.items[k].card_id \notin DOMAIN ctx.cards.items

\* C20: save fails, with the missing-card error, exactly when some task or
\* event has a card_id that is not the id of a stored card; a failing save
\* produces no file, a succeeding one produces one, and in both cases the
\* three repositories are left unchanged.
C20_SaveFailsExactlyOnMissingCard ==
    [][last'.cmd = "save" =>
         /\ last'.ok = ~MissingCard(State)
         /\ ~last'.ok => last'.err = "Reference to missing card id when building save file."
         /\ build_save_file(State).file.exists = last'.ok
         /\ cards' = cards /\ events' = events /\ tasks' = tasks]_vars

\* a save has failed over an event that refers to a card no longer stored,
\* while every task reference resolves
C20_SaveRefusedForEvent ==
    /\ last.cmd = "save" /\ ~last.ok
    /\ \E k \in DOMAIN events.items :
          events.items[k].card_id # NoCard /\ events.items[k].card_id \notin DOMAIN cards.items
    /\ \A k \in DOMAIN tasks.items :
          tasks.items[k].card_id = NoCard \/ tasks.items[k].card_id \in DOMAIN cards.items
    /\ tasks.items # <<>>

\* the number of stored cards whose id is at most id: the place of card id
\* among the stored cards in ascending id order
CompactId(id) == Cardinality({c \in DOMAIN cards.items : c <= id})

\* the k-th entity of repository r in ascending id order
KthOf(r, k) == State[r].items[AscendingSeq(DOMAIN State[r].items)[k]]

\* C21: a successful save emits the cards in ascending id order, the k-th
\* emitted card standing for compact id k, and every task and event line
\* carries the compact id of the card its card_id refers to, which is the
\* position of that card's line in the file.
C21_SaveWritesCompactCardIds ==
    [][(last'.cmd = "save" /\ last'.ok) =>
         LET f == build_save_file(State).file
         IN /\ Len(f.cards) = Cardinality(DOMAIN cards.items)
            /\ \A c \in DOMAIN cards.items :
                  /\ CompactId(c) \in 1..Len(f.cards)
                  /\ f.cards[CompactId(c)].name = cards.items[c].name
                  /\ f.cards[CompactId(c)].color = cards.items[c].color
            /\ \A r \in {"events", "tasks"} :
                  /\ Len(f[r]) = Cardinality(DOMAIN State[r].items)
                  /\ \A k \in 1..Len(f[r]) :
                        f[r][k].card = IF KthOf(r, k).card_id = NoCard THEN NoCard
                                       ELSE CompactId(KthOf(r, k).card_id)]_vars

\* a save has succeeded with card 1 deleted and a task and an event on card 2
C21_SavedWithGapInCardIds ==
    /\ last.cmd = "save" /\ last.ok
    /\ DOMAIN cards.items = {2}
    /\ \E k \in DOMAIN tasks.items : tasks.items[k].card_id = 2
    /\ \E k \in DOMAIN events.items : events.items[k].card_id = 2

\* C22: a line whose help flag stands at the declared position of its command
\* (index 0 for add and the global commands, index 1 for mod and del)
\* returns success and changes no repository, hence no task placement.
C22_HelpFlagShortCircuits ==
    [][\A cmd \in FlaggedCommands :
          ExecuteFlagged(cmd, help_idx(cmd))
             => /\ last'.ok
                /\ cards' = cards /\ events' = events /\ tasks' = tasks]_vars

\* a schedule line has returned success while tasks with hours to place are
\* stored and none has a subtask: the line carried the help flag
C22_ScheduleHelpPlacedNothing ==
    /\ last.cmd = "schedule" /\ last.ok
    /\ \E k \in DOMAIN tasks.items : tasks.items[k].hours > 0
    /\ \A k \in DOMAIN tasks.items :
          /\ tasks.items[k].subtasks = <<>>
          /\ tasks.items[k].remaining_hours = tasks.items[k].hours

\* C26: under the interactive commands without load, next_id of each
\* repository never decreases, every stored id is below next_id, and an id
\* that appears in a repository is at least the next_id the repository had
\* before the step: it is greater than every id assigned before, so the id of
\* a deleted entity is not assigned again.
C26_IdsNeverReused ==
    [][\A r \in Repos :
          /\ State'[r].next_id >= State[r].next_id
          /\ \A k \in DOMAIN State'[r].items : k < State'[r].next_id
          /\ \A k \in DOMAIN State'[r].items \ DOMAIN State[r].items :
                k >= State[r].next_id]_vars

\* the last command was an add, and the only entity stored is task 2: task 1
\* was deleted before the add
C26_AddAfterDelete ==
    /\ last.cmd = "add" /\ last.ok
    /\ cards.items = <<>> /\ events.items = <<>>
    /\ DOMAIN tasks.items = {2}

\* C23: begin_stage(clear_existing), any number of staged inserts and
\* discard_stage leave the repository as it was before begin_stage: the
\* pending entities are dropped, the live items are unchanged and next_id has
\* its former value, for clear_existing false and true.
C23_DiscardRestoresRepository ==
    [][(last'.cmd = "stage-discard" /\ last'.ok)
          => /\ cards'.items = cards.items
             /\ cards'.next_id = cards.next_id
             /\ cards'.staged = cards.staged]_vars

\* a stage opened with clear_existing and discarded has left stored cards
\* with next_id back at 1
C23_DiscardLeftNextIdAtOne ==
    /\ last.cmd = "stage-discard" /\ last.ok
    /\ cards.items # <<>>
    /\ cards.next_id = 1
    /\ ~cards.staged.active

\* the step has put one entity into the stage of repository r: it carries the
\* next_id r had, next_id has grown by one, and the live map, hence len, get
\* and values, is what it was
StagedInsert(r) ==
    /\ State'[r].items = State[r].items
    /\ State'[r].next_id = State[r].next_id + 1
    /\ Len(State'[r].staged.pending) = Len(State[r].staged.pending) + 1
    /\ State'[r].staged.pending[Len(State'[r].staged.pending)].id = State[r].next_id
    /\ \A k \in 1..Len(State[r].staged.pending) :
          State'[r].staged.pending[k] = State[r].staged.pending[k]

\* C24: while a repository is staged, insert gives the entity the current
\* next_id and increments next_id but leaves the live map unchanged; an id
\* enters the live map of a staged repository only in apply_prepared.
C24_StagedInsertIsDeferred ==
    [][/\ (tx.pc = "f" /\ tx'.pc # "idle" /\ tx.ops[tx.j].action = "add")
            => StagedInsert(tx.ops[tx.j].entity \o "s")
       /\ (Idle /\ last'.cmd = "add" /\ last'.ok)
            => \A e \in Entities : \A a \in TxArgsOf(e) :
                  (Add(e, a) /\ State[e \o "s"].staged.active) => StagedInsert(e \o "s")
       /\ \A r \in Repos :
             (State[r].staged.active /\ DOMAIN State'[r].items # DOMAIN State[r].items
                 /\ ~(DOMAIN State'[r].items \subseteq DOMAIN State[r].items))
               => tx.pc = "apply"]_vars

\* inside a run that keeps the live cards, a card has been added to the stage
\* while a card is stored
C24_CardPendingBesideLive ==
    /\ tx.pc \in {"f", "validate"} /\ last.cmd = "add"
    /\ cards.staged.active /\ ~cards.staged.cleared
    /\ cards.items # <<>> /\ cards.staged.pending # <<>>

\* the pending entity of repo that carries id
PendingOf(repo, id) ==
    repo.staged.pending[CHOOSE k \in 1..Len(repo.staged.pending) :
                           repo.staged.pending[k].id = id]

\* C25: after begin_stage(clear), staged inserts, a successful prepare_commit
\* and apply_prepared, the live map is the empty map if clear, otherwise the
\* previous live map, extended with the pending entities under their ids;
\* next_id is greater than every stored id and not smaller than it was before
\* the commit; the repository is no longer staged.
C25_CommitMergesPendingIntoLive ==
    [][tx.pc = "apply"
         => LET r    == participants[tx.i]
                old  == State[r]
                new  == State'[r]
                base == IF old.staged.cleared THEN {} ELSE DOMAIN old.items
            IN /\ DOMAIN new.items = base \cup PendingIds(old)
               /\ \A id \in PendingIds(old) : new.items[id] = PendingOf(old, id)
               /\ \A id \in base \ PendingIds(old) : new.items[id] = old.items[id]
               /\ \A id \in DOMAIN new.items : id < new.next_id
               /\ new.next_id >= old.next_id
               /\ ~new.staged.active]_vars

\* the cards of a run that keeps the live cards and adds one card have just
\* been applied: the card stored before the run and the card of the run are
\* both live
C25_CardCommittedBesideLive ==
    /\ tx.pc = "apply" /\ tx.i = 2 /\ last.cmd = "apply_prepared"
    /\ ~tx.clear_existing
    /\ Len(tx.ops) = 3
    /\ Cardinality(DOMAIN cards.items) = 2
    /\ ~cards.staged.active

\* card n can be referred to: it is live and no stage opened with
\* clear_existing hides the live cards, or it waits in the pending buffer
Visible(n) ==
    \/ n \in DOMAIN cards.items /\ ~(cards.staged.active /\ cards.staged.cleared)
    \/ \E k \in 1..Len(cards.staged.pending) : cards.staged.pending[k].id = n

\* C27: a task or event add or mod carrying a card reference is accepted only
\* if the card is visible to the cards repository at that moment: live when
\* the repository is not staged or staged without clear, or pending; under a
\* stage opened with clear_existing the live cards do not count.
C27_CardReferenceMustBeVisible ==
    [][/\ (tx.pc = "f" /\ tx'.pc # "idle"
               /\ tx.ops[tx.j].action \in {"add", "mod"}
               /\ tx.ops[tx.j].entity \in {"task", "event"}
               /\ tx.ops[tx.j].args.card # NoCard)
            => Visible(tx.ops[tx.j].args.card)
       /\ (Idle /\ last'.cmd = "add" /\ last'.ok)
            => \A e \in {"task", "event"} : \A a \in TxArgsOf(e) :
                  (Add(e, a) /\ a.card # NoCard) => Visible(a.card)
       /\ (Idle /\ last'.cmd = "mod" /\ last'.ok)
            => \A id \in 1..MaxId : \A a \in TxArgsOf("task") :
                  (Modify("task", id, a) /\ a.card # NoCard) => Visible(a.card)]_vars

\* inside a run opened with clear_existing over stored cards, a task on card 1
\* has been accepted after the card was added earlier in the same batch
C27_TaskAcceptedOnCardOfTheBatch ==
    /\ tx.pc = "f" /\ tx.clear_existing /\ last.cmd = "add"
    /\ cards.items # <<>> /\ cards.staged.cleared
    /\ Len(cards.staged.pending) = 1
    /\ Len(tasks.staged.pending) = 1 /\ tasks.staged.pending[1].card_id = 1

\* the step opens, closes, the stage of repository r
Opened(r) == ~State[r].staged.active /\ State'[r].staged.active
Closed(r) == State[r].staged.active /\ ~State'[r].staged.active

\* C28: in Transaction::run the participants are processed in the order
\* cards, events, tasks: the stages are opened in that order, the closure runs
\* only when all three stages are open, the snapshots are prepared in that
\* order and only after the cross-entity validation has succeeded, no
\* apply_prepared happens before all three are prepared, and the applies
\* happen in that order.
C28_RunProcessesCardsEventsTasks ==
    [][/\ tx.pc = "begin"
            => /\ Opened("cards") => ~events.staged.active /\ ~tasks.staged.active
               /\ Opened("events") => cards.staged.active /\ ~tasks.staged.active
               /\ Opened("tasks") => cards.staged.active /\ events.staged.active
       /\ tx.pc = "f"
            => cards.staged.active /\ events.staged.active /\ tasks.staged.active
       /\ (tx'.pc = "prepare" /\ tx.pc # "prepare")
            => tx.pc = "validate" /\ validate_associations(State).ok
       /\ (tx.pc = "prepare" /\ tx'.pc # "idle")
            => LET n == Len(tx'.prepared)
               IN /\ n = Len(tx.prepared) + 1
                  /\ tx'.prepared[n] = prepare_commit(State[<<"cards", "events", "tasks">>[n]])
                  /\ \A r \in Repos : ~Closed(r)
       /\ (tx'.pc = "apply" /\ tx.pc # "apply")
            => tx.pc = "prepare" /\ Len(tx'.prepared) = 3
       /\ tx.pc \in {"begin", "validate"} => \A r \in Repos : ~Closed(r)
       /\ tx.pc = "apply"
            => /\ Len(tx.prepared) = 3
               /\ \E r \in Repos : Closed(r)
               /\ Closed("cards") => events.staged.active /\ tasks.staged.active
               /\ Closed("events") => ~cards.staged.active /\ tasks.staged.active
               /\ Closed("tasks") => ~cards.staged.active /\ ~events.staged.active]_vars

\* the cards have been applied, the events and the tasks are still staged
C28_CardsAppliedFirst ==
    /\ last.cmd = "apply_prepared" /\ Len(tx.prepared) = 3
    /\ ~cards.staged.active /\ events.staged.active /\ tasks.staged.active
    /\ cards.items # <<>>

\* C29: prepare_commit, whether it succeeds or fails, leaves the repository's
\* live items, next_id and staged buffer unchanged; between prepare and apply
\* a repository that has not been applied yet is still in its pre-commit
\* state.
C29_PrepareCommitOnlyReads ==
    [][/\ tx.pc = "prepare"
            => cards' = cards /\ events' = events /\ tasks' = tasks
       /\ tx.pc = "apply"
            => \A r \in Repos : r # participants[tx.i] => State'[r] = State[r]]_vars

\* prepare_commit has refused the cards of a run: the card of the run carries
\* the id of a stored card; the stage is as the run's closure left it
C29_PrepareRefusedStageKept ==
    /\ last.cmd = "execute" /\ ~last.ok
    /\ last.err = "Entity with id already exists."
    /\ cards.staged.active
    /\ \E k \in 1..Len(cards.staged.pending) :
          cards.staged.pending[k].id \in DOMAIN cards.items

\* the three snapshots are prepared, one of them holds a card that the cards
\* repository does not hold yet
C29_PreparedNotYetApplied ==
    /\ tx.pc = "apply" /\ tx.i = 1
    /\ DOMAIN tx.prepared[1].items # DOMAIN cards.items
    /\ cards.staged.active

\* the slots of a pattern that are kept when the slots outside keep are
\* omitted, in order
Kept(slots, keep) == [k \in 1..Cardinality(keep) |-> slots[AscendingSeq(keep)[k]]]

\* args is the slot list with some optional slots omitted, each remaining slot
\* matching the kind of the argument at its position
KindObtainable(slots, args) ==
    \E keep \in SUBSET (1..Len(slots)) :
       /\ \A i \in (1..Len(slots)) \ keep : slots[i].optional
       /\ Cardinality(keep) = Len(args)
       /\ \A k \in 1..Len(args) : Kept(slots, keep)[k].kind = args[k].kind

\* the same, each remaining slot also passing its validator on its argument
Obtainable(slots, args) ==
    \E keep \in SUBSET (1..Len(slots)) :
       /\ \A i \in (1..Len(slots)) \ keep : slots[i].optional
       /\ Cardinality(keep) = Len(args)
       /\ \A k \in 1..Len(args) :
             /\ Kept(slots, keep)[k].kind = args[k].kind
             /\ validator_error(Kept(slots, keep)[k], args[k], State, config) = ""

ValidatorMessages ==
    {"Hours must be greater than 0.", "ID must be greater than 0.",
     "Card id does not exist.", "Task due date cannot be before schedule start date.",
     "Event falls outside of daily hours range from config", "Wrong entity type"}

\* C30: match_pattern accepts an argument list exactly when the list is the
\* pattern's slot list with zero or more optional slots omitted, each
\* remaining slot matching the kind of, and passing its validator on, the
\* argument at its position; every other list is rejected with the missing
\* argument message, a kind or validator message, or the too many arguments
\* message; a list whose kinds fit but whose validator fails, on an optional
\* slot too, is rejected with the validator's message.
C30_MatchPatternAcceptsExactlyThePattern ==
    last.cmd = "match"
      => LET slots == pattern(last.pid)
         IN /\ last.ok <=> Obtainable(slots, last.args)
            /\ ~last.ok
                 => last.err \in {"Missing argument(s).", "Too many arguments provided."}
                                    \cup {expected_error(k) : k \in ArgKinds}
                                    \cup ValidatorMessages
            /\ (KindObtainable(slots, last.args) /\ ~Obtainable(slots, last.args))
                 => ~last.ok /\ last.err \in ValidatorMessages

\* a task list that fills the optional card slot with a card that does not
\* exist has been rejected with the card validator's message
C30_OptionalCardSlotRejected ==
    /\ last.cmd = "match" /\ ~last.ok
    /\ last.pid = <<"task", "Base">>
    /\ Len(last.args) = 5 /\ last.args[3].kind = "card"
    /\ last.err = "Card id does not exist."

\* an event list that omits both optional slots has been accepted
C30_OptionalSlotsOmitted ==
    /\ last.cmd = "match" /\ last.ok
    /\ last.pid = <<"event", "Base">>
    /\ Len(last.args) = 4

\* the hours h of the day whose start lies in [start, end)
HoursIn(start, end) == {h \in 0..23 : start <= Hour(h) /\ Hour(h) < end}

\* the hours of `date` taken by the events active on its weekday and by the
\* subtasks placed on it
BusyHours(date) ==
    UNION {HoursIn(events.items[id].time_range.start, events.items[id].time_range.end) :
              id \in {e \in DOMAIN events.items : is_active_on_date(events.items[e], date)}}
    \cup
    UNION {UNION {HoursIn(tasks.items[id].subtasks[k].time_range.start,
                          tasks.items[id].subtasks[k].time_range.end) :
                     k \in {j \in 1..Len(tasks.items[id].subtasks) :
                               tasks.items[id].subtasks[j].date = date}} :
              id \in DOMAIN tasks.items}

PlanningDays == {today + o : o \in 0..(days_to_plan - 1)}

\* C31: free_blocks_for_date returns blocks that are non-empty, sorted by
\* start and pairwise disjoint, and whose union is exactly the daily window
\* of the date minus the time ranges of the events active on its weekday and
\* of the subtasks placed on it, also when an event lies partly or wholly
\* outside the window.
C31_FreeBlocksAreWindowMinusBusy ==
    \A d \in PlanningDays :
       LET free == free_blocks_for_date(State, d, config.range)
       IN /\ \A i \in 1..Len(free) : free[i].start_time < free[i].end_time
          /\ \A i \in 1..Len(free) : \A j \in (i + 1)..Len(free) :
                free[i].end_time <= free[j].start_time
          /\ UNION {HoursIn(free[i].start_time, free[i].end_time) : i \in 1..Len(free)}
                = HoursIn(config.range.start, config.range.end) \ BusyHours(d)

\* today an event starts before the window and ends inside it, a subtask
\* lies inside the window, and free time is left after both
C31_EventAcrossWindowStart ==
    /\ \E id \in DOMAIN events.items :
          /\ is_active_on_date(events.items[id], today)
          /\ events.items[id].time_range.start < config.range.start
          /\ events.items[id].time_range.end > config.range.start
    /\ \E id \in DOMAIN tasks.items : \E k \in 1..Len(tasks.items[id].subtasks) :
          /\ tasks.items[id].subtasks[k].date = today
          /\ tasks.items[id].subtasks[k].time_range.start >= config.range.start
          /\ tasks.items[id].subtasks[k].time_range.end <= config.range.end
    /\ free_blocks_for_date(State, today, config.range) # <<>>

RECURSIVE Capacity(_)
\* the total free time of a free list
Capacity(free) ==
    IF free = <<>> THEN 0
    ELSE (Head(free).end_time - Head(free).start_time) + Capacity(Tail(free))

\* the hours of the day covered by a free list
FreeHours(free) == UNION {HoursIn(free[i].start_time, free[i].end_time) : i \in 1..Len(free)}

\* the hours of `date` covered by the subtasks task has on it
SubtaskHours(task, date) ==
    UNION {HoursIn(task.subtasks[k].time_range.start, task.subtasks[k].time_range.end) :
              k \in {j \in 1..Len(task.subtasks) : task.subtasks[j].date = date}}

\* the step is the return of a pack call
PackReturns == sm.pc = "pack" /\ sm'.pc = "task"

\* C32: a pack call on a task with remaining r > 0 over a free list of total
\* capacity F carves exactly min(r, F), always from the earliest free time of
\* the list; it returns Full with remaining 0 if F >= r, Partial if
\* 0 < F < r, and None with the task and the list unchanged if F = 0; the
\* time removed from the free list equals the time added to the subtasks.
C32_PackCarvesEarliestFreeTime ==
    [][PackReturns
         => LET id     == Head(sm.ids)
                date   == PlanDays[sm.i]
                r      == sm.start_remaining
                F      == Capacity(sm.start_free)
                after  == tasks'.items[id]
                carved == r - after.remaining_hours
                new    == SubtaskHours(after, date)
            IN /\ r > 0
               /\ carved = Min2(r, F)
               /\ sm'.outcome = (IF F >= r THEN "Full" ELSE IF F > 0 THEN "Partial" ELSE "None")
               /\ sm'.outcome = "Full" => after.remaining_hours = 0
               /\ sm'.outcome = "None"
                    => sm.iters = 0 /\ after = tasks.items[id] /\ sm'.free = sm.start_free
               /\ Capacity(sm.start_free) - Capacity(sm'.free) = carved
               /\ Cardinality(new) * SecondsPerHour = carved
               /\ new \subseteq FreeHours(sm.start_free)
               /\ FreeHours(sm'.free) = FreeHours(sm.start_free) \ new
               /\ \A h \in new : \A g \in FreeHours(sm.start_free) \ new : h < g]_vars

\* a pack call has returned Full after using one whole block and part of a
\* second one
C32_FullAcrossTwoBlocks ==
    /\ last.cmd = "pack" /\ sm.outcome = "Full" /\ sm.iters = 1
    /\ Len(sm.start_free) = 2
    /\ Len(tasks.items[sm.picked[Len(sm.picked)]].subtasks) = 2

\* a pack call has returned None over an empty free list
C32_NoneOverNoFreeTime ==
    /\ last.cmd = "pack" /\ sm.outcome = "None" /\ sm.start_free = <<>>

\* a pack call has returned Partial
C32_PartialFilledTheDay ==
    /\ last.cmd = "pack" /\ sm.outcome = "Partial" /\ sm.free = <<>>

\* the subtasks task has on date
SubtasksOf(task, date) ==
    {task.subtasks[k] : k \in {j \in 1..Len(task.subtasks) : task.subtasks[j].date = date}}

\* C33: on each planning day the placements follow the comparator order: the
\* candidates are picked in the order of the comparator, and when task A is
\* picked before task B that day, every subtask of A on that day ends no
\* later than every subtask of B on that day starts; within one task the
\* subtasks list is in ascending (date, start time) order.
C33_PlacementsFollowPickOrder ==
    [][/\ (sm.pc = "day" /\ sm'.pc = "task")
            => \A i \in 1..Len(sm'.ids) : \A j \in (i + 1)..Len(sm'.ids) :
                  make_task_order_comparator(config.order, tasks.items[sm'.ids[i]],
                                             tasks.items[sm'.ids[j]]) < 0
       /\ PackReturns
            => \A k \in 1..Len(sm.picked) :
                  \A a \in SubtasksOf(tasks'.items[sm.picked[k]], PlanDays[sm.i]) :
                     \A b \in SubtasksOf(tasks'.items[Head(sm.ids)], PlanDays[sm.i]) :
                        a.time_range.end <= b.time_range.start
       /\ \A id \in DOMAIN tasks'.items :
             LET sts == tasks'.items[id].subtasks
             IN \A k \in 1..Len(sts) : \A l \in (k + 1)..Len(sts) :
                   \/ sts[k].date < sts[l].date
                   \/ /\ sts[k].date = sts[l].date
                      /\ sts[k].time_range.start < sts[l].time_range.start]_vars

\* two tasks picked one after the other have both been placed on the day
C33_TwoTasksPlacedOnOneDay ==
    /\ last.cmd = "pack" /\ Len(sm.picked) = 2
    /\ \A k \in 1..2 : SubtasksOf(tasks.items[sm.picked[k]], PlanDays[sm.i]) # {}
    /\ \E id \in DOMAIN tasks.items : Len(tasks.items[id].subtasks) > 1

\* the tasks with no placement: subtasks empty, remaining_hours = hours
Unplaced(items) ==
    [id \in DOMAIN items |-> [[items[id] EXCEPT !.subtasks = <<>>]
                                 EXCEPT !.remaining_hours = items[id].hours]]

\* the orders a HashMap may hand the ids of S out in
Orderings(S) ==
    {v \in [1..Cardinality(S) -> S] : \A i, j \in 1..Cardinality(S) : v[i] = v[j] => i = j}

\* C34: compute_schedule starts by resetting every task, so its result
\* depends only on the tasks' ids, hours and due dates, the events and the
\* configuration: it is the result for the same tasks without any placement,
\* the candidates of a day come out in one order whatever order the
\* repository hands them out in, and a schedule run right after a schedule
\* run changes no subtask, overflow flag or remaining_hours.
C34_ScheduleIgnoresEarlierPlacements ==
    LET fresh == [State EXCEPT !.tasks.items = Unplaced(tasks.items)]
        r     == compute_schedule(State, config, today)
    IN /\ reset_tasks(tasks.items) = Unplaced(tasks.items)
       /\ r.ok /\ r = compute_schedule(fresh, config, today)
       /\ last.cmd = "schedule" => r.ctx.tasks = tasks
       /\ \A o \in 0..(days_to_plan - 1) :
             LET cand == {id \in DOMAIN tasks.items :
                            /\ start_date(config, today) + o <= tasks.items[id].date
                            /\ tasks.items[id].remaining_hours > 0}
             IN \A v \in Orderings(cand) :
                   SortIds(v, tasks.items, config.order)
                     = sorted_ids(tasks.items, start_date(config, today) + o,
                                  config.order)

\* a schedule has run over tasks it placed, one of them flagged as overflowing,
\* and a task added since makes the placements stale
C34_RunOverStalePlacements ==
    /\ last.cmd = "add" /\ last.ok
    /\ \E id \in DOMAIN tasks.items :
          /\ tasks.items[id].subtasks # <<>>
          /\ tasks.items[id].remaining_hours > 0
    /\ compute_schedule(State, config, today).ctx.tasks # tasks
    /\ \E id \in DOMAIN tasks.items :
          /\ tasks.items[id].subtasks # <<>>
          /\ compute_schedule(State, config, today).ctx.tasks.items[id].subtasks
               # tasks.items[id].subtasks

\* the planning days on which a task due on `date` is a candidate
DaysUpTo(date) == {i \in 1..Len(PlanDays) : PlanDays[i] <= date}

\* C35: the scheduler is work-conserving: after a schedule run, on every
\* planning day d such that some task due on d or later still has
\* remaining_hours > 0, no free time is left: the window of d is fully
\* covered by active events and subtasks.
C35_NoFreeTimeBesideUnfinishedTask ==
    last.cmd = "schedule" =>
       \A id \in DOMAIN tasks.items :
          tasks.items[id].remaining_hours > 0 =>
             \A i \in DaysUpTo(tasks.items[id].date) :
                /\ free_blocks_for_date(State, PlanDays[i], config.range) = <<>>
                /\ HoursIn(config.range.start, config.range.end) \subseteq BusyHours(PlanDays[i])

\* a run left a task unfinished although a later planning day has free time,
\* and another task's subtask takes part of a day the unfinished task could use
C35_UnfinishedTaskDaysFull ==
    /\ last.cmd = "schedule"
    /\ \E id \in DOMAIN tasks.items :
          /\ tasks.items[id].remaining_hours > 0
          /\ tasks.items[id].subtasks # <<>>
          /\ DaysUpTo(tasks.items[id].date) # {}
          /\ \E o \in DOMAIN tasks.items : \E i \in DaysUpTo(tasks.items[id].date) :
                o # id /\ SubtasksOf(tasks.items[o], PlanDays[i]) # {}
    /\ \E i \in 1..Len(PlanDays) :
          free_blocks_for_date(State, PlanDays[i], config.range) # <<>>

\* C36: compute_schedule always terminates: each iteration of the pack loop
\* either completes the task (and pack returns) or removes one block from the
\* day's free list without putting it back, so a pack call makes at most as
\* many iterations as the free list had blocks at the call; the candidates of
\* a day are finitely many and the planning days are 7, so a run that has
\* begun reaches its return.
C36_ScheduleRunTerminates ==
    /\ [][/\ (sm.pc = "pack" /\ sm'.pc = "pack")
              => /\ Len(sm'.free) = Len(sm.free) - 1
                 /\ sm'.iters = sm.iters + 1
                 /\ sm'.iters <= Len(sm.start_free)
                 /\ tasks'.items[Head(sm.ids)].remaining_hours > 0
                 /\ \A b \in Range(sm'.free) : b \in Range(sm.free)
          /\ (PackReturns /\ Len(tasks'.items[Head(sm.ids)].subtasks)
                               > Len(tasks.items[Head(sm.ids)].subtasks))
              => /\ tasks'.items[Head(sm.ids)].remaining_hours = 0
                 /\ sm.iters + 1 <= Len(sm.start_free)
          /\ PackReturns => Len(sm'.ids) = Len(sm.ids) - 1
          /\ (sm.pc = "task" /\ sm'.pc = "day") => sm'.i = sm.i + 1
          /\ sm'.i <= days_to_plan + 1]_vars
    /\ (sm.pc # "idle") ~> (sm.pc = "idle" /\ last.cmd = "schedule")

\* a pack call has used both blocks of the day whole and the task is still
\* unfinished: the loop is about to end on the empty free list
C36_PackUsedEveryBlock ==
    /\ sm.pc = "pack" /\ sm.iters = 2 /\ Len(sm.start_free) = 2 /\ sm.free = <<>>
    /\ tasks.items[Head(sm.ids)].remaining_hours > 0

\* the save files in which an event or a task refers to +C<n> while the
\* file's cards list has no n-th card
DanglingFiles ==
    {f \in LoadFiles :
        \/ \E k \in 1..Len(f.events) :
              f.events[k].card # NoCard /\ f.events[k].card > Len(f.cards)
        \/ \E k \in 1..Len(f.tasks) :
              f.tasks[k].card # NoCard /\ f.tasks[k].card > Len(f.cards)}

\* C37: loading a save file in which an event or task references +C<n> while
\* the file's cards list contains no n-th card is rejected by the
\* transaction's cross-entity validation step with the error "Referenced id n
\* not present in transaction.", and the three repositories keep their
\* length and next_id.
C37_DanglingLoadRejectedByValidation ==
    [][\A f \in DanglingFiles :
          LET r == load_state(State, config, today, f)
          IN (/\ last'.cmd = "read" /\ last'.ok = r.ok /\ last'.err = r.err
              /\ State' = r.ctx)
             => /\ ~last'.ok
                /\ last'.err = "Referenced id not present in transaction."
                /\ \A repo \in Repos :
                      /\ len(State'[repo]) = len(State[repo])
                      /\ State'[repo].next_id = State[repo].next_id]_vars

\* the read of a file with a dangling reference has failed in the card id
\* validator of the add command, and a repository that holds an entity is
\* left with next_id = 1
C37_DanglingLoadRejectedByValidator ==
    /\ last.cmd = "read" /\ ~last.ok
    /\ last.err = "Card id does not exist."
    /\ \E repo \in Repos : State[repo].items # <<>> /\ State[repo].next_id = 1
    /\ \A repo \in Repos : ~State[repo].staged.active

====
